---------------------------- MODULE Spec2Model ----------------------------
(***************************************************************************)
(* A model of the pl-odds dashboard's analysis code (docs/js): the         *)
(* Analyzer's pure functions (net performance, correlation), the           *)
(* re-slicing of a team's match history by getFilteredTeams, and the chart *)
(* and team-detail code that consumes it.  Each part has its own           *)
(* specification over the variables below; the parts it does not use stay  *)
(* at rest.                                                                *)
(*                                                                         *)
(* Numbers.  Goal differences, spreads and net performances are held in    *)
(* HALF-GOAL units: the integer 3 stands for 1.5 goals, -2 for -1.0.       *)
(* Sums and comparisons of such values are exact in JavaScript doubles.    *)
(* A nullable number is a sequence: <<>> is null, <<n>> is the number n.   *)
(* The result of a JavaScript division a / b is the record                 *)
(* [num |-> a, den |-> b]; den = 0 with num = 0 is NaN.                    *)
(***************************************************************************)
EXTENDS Integers, Sequences, FiniteSets, TLC

VARIABLES
    actualDiff,   \* goal differential of one fixture, home perspective
    spread,       \* its spread, home perspective
    homeNet,      \* calculateNetPerformance for the home side, or null
    awayNet,      \* calculateNetPerformance for the away side, or null
    xValues,      \* the first sequence given to calculateCorrelation
    yValues,      \* the second sequence given to it
    correlation,  \* what calculateCorrelation returned, or null
    teams,        \* data.performance.teams, as loaded
    now,          \* the date new Date() gives
    call,         \* the last call made on the loaded data, with its arguments
    returned,     \* what that call returned (or rendered)
    storage,      \* localStorage's item 'pl-odds-cache', or null
    clock,        \* Date.now(), in milliseconds
    loadState,    \* where the call of DataLoader.loadAll stands
    loadResult,   \* what loadAll returned, or null
    fetched,      \* whether that call of loadAll went to the network
    responses,    \* how its three fetches settled, or null
    untouched,    \* the item storage would hold had that call not run
    hash,         \* window.location.hash without its '#'
    currentView,  \* Router.currentView
    display,      \* style.display of the three view containers
    sidebar,      \* style.display of .upcoming-sidebar
    handlers,     \* the names Router.handlers defines
    listening,    \* whether Router.init has added the hashchange listener
    events,       \* the hashchange events queued and not yet dispatched
    dispatched,   \* what the last handleRoute did: the handler called, or the throw
    initState,    \* where Dashboard.init stands
    appData,      \* Dashboard's this.data
    overlay,      \* the loading overlay: loading, hidden or error
    rendered,     \* the view rendered last, or none
    items,        \* localStorage: the value stored under each key, "" if none
    dataTheme,    \* the data-theme attribute of the document element, "" if none
    systemDark,   \* whether (prefers-color-scheme: dark) matches
    themeReady,   \* whether ThemeManager.init has run
    toggled,      \* whether the theme toggle was ever clicked
    charts,       \* the PerformanceChart instances constructed so far, in order
    controlListeners, \* 'change' listeners on each of the chart controls
    lastUpdates,  \* calls of PerformanceChart.update made by the last change event
    containerWidth, \* clientWidth of the chart containers
    sinceResize,  \* ms since the last window resize event
    burstInits,   \* re-inits run by the resize timer since the burst of resizes began
    pies          \* the PieChart instances constructed so far, in order

netVars == <<actualDiff, spread, homeNet, awayNet>>

corrVars == <<xValues, yValues, correlation>>

dataVars == <<teams, now>>

callVars == <<call, returned>>

loaderVars ==
    <<storage, clock, loadState, loadResult, fetched, responses, untouched>>

routerVars ==
    <<hash, currentView, display, sidebar, handlers, listening, events, dispatched>>

dashVars == <<initState, appData, overlay, rendered>>

pageVars == <<routerVars, dashVars>>

themeVars == <<items, dataTheme, systemDark, themeReady, toggled>>

widgetVars == <<charts, controlListeners, lastUpdates, containerWidth, sinceResize, burstInits, pies>>

uiVars == <<themeVars, widgetVars>>

appVars == <<loaderVars, pageVars, uiVars>>

analysisVars == <<netVars, corrVars, dataVars, callVars>>

vars == <<netVars, corrVars, dataVars, callVars, appVars>>

(***************************************************************************)
(* JavaScript values                                                       *)
(***************************************************************************)
Null == <<>>

Num(n) == <<n>>

\* ToNumber of a nullable number: null coerces to 0 in sum + null, null > 0.
ToNumber(v) == IF v = Null THEN 0 ELSE v[1]

Abs(n) == IF n < 0 THEN -n ELSE n

(***************************************************************************)
(* Bounds of the model                                                     *)
(***************************************************************************)
\* largest goal difference of a fixture, in goals
MaxGoals == 3

\* largest spread of a fixture, in half-goals
MaxSpread == 4

Diffs == {2 * g : g \in -MaxGoals..MaxGoals}

Spreads == -MaxSpread..MaxSpread

(***************************************************************************)
(* Analyzer.calculateNetPerformance                                        *)
(***************************************************************************)
\* the earlier revision of the function (docs/js/analyzer.js): diff - spread
calculateNetPerformance_minus(d, s) == d - s

\* the handicap taken as a magnitude, whichever side it favours
calculateNetPerformance_unsigned(d, s) == d + Abs(s)

calculateNetPerformance(d, s) == d + s

\* no data loaded and no call made: the analysis side at rest
DataIdle ==
    /\ teams = <<>>
    /\ now = 0
    /\ call = [op |-> "none"]
    /\ returned = Null

\* the page not opened: nothing stored, nothing loading
LoaderIdle ==
    /\ storage = Null
    /\ clock = 0
    /\ loadState = "idle"
    /\ loadResult = Null
    /\ fetched = FALSE
    /\ responses = Null
    /\ untouched = Null

\* the page not opened: no route handled, nothing rendered
PageIdle ==
    /\ hash = [path |-> "", rest |-> <<>>]
    /\ currentView = "dashboard"
    /\ display = [view \in {"dashboard-view", "team-detail-view", "tables-view"} |-> ""]
    /\ sidebar = ""
    /\ handlers = {}
    /\ listening = FALSE
    /\ events = 0
    /\ dispatched = [show |-> "none", thrown |-> FALSE, calls |-> <<>>]
    /\ initState = "pending"
    /\ appData = Null
    /\ overlay = [hidden |-> FALSE, error |-> FALSE]
    /\ rendered = [view |-> "none", team |-> <<>>, data |-> <<>>]

\* nothing stored under any key, no theme applied
ThemeIdle ==
    /\ items = [key \in {"pl-odds-cache", "pl-odds-theme", "other"} |-> ""]
    /\ dataTheme = ""
    /\ systemDark = FALSE
    /\ themeReady = FALSE
    /\ toggled = FALSE

WidgetIdle ==
    /\ charts = <<>>
    /\ controlListeners = 0
    /\ lastUpdates = 0
    /\ containerWidth = 0
    /\ sinceResize = 0
    /\ burstInits = 0
    /\ pies = <<>>

UiIdle == ThemeIdle /\ WidgetIdle

AppIdle == LoaderIdle /\ PageIdle /\ UiIdle

\* no fixture under calculation: the calculator at rest
NetIdle ==
    /\ actualDiff = 0
    /\ spread = 0
    /\ homeNet = Null
    /\ awayNet = Null

\* no correlation asked for
CorrIdle ==
    /\ xValues = <<>>
    /\ yValues = <<>>
    /\ correlation = Null

NetInit ==
    /\ actualDiff \in Diffs
    /\ spread \in Spreads
    /\ homeNet = Null
    /\ awayNet = Null
    /\ CorrIdle
    /\ DataIdle
    /\ AppIdle

\* the home side's net performance of the fixture
CalcHomeNet ==
    /\ homeNet = Null
    /\ homeNet' = Num(calculateNetPerformance(actualDiff, spread))
    /\ UNCHANGED <<actualDiff, spread, awayNet, corrVars, dataVars, callVars, appVars>>

\* the away side's: the same fixture with the sides swapped and the signs
\* of the differential and of the spread inverted
CalcAwayNet ==
    /\ awayNet = Null
    /\ awayNet' = Num(calculateNetPerformance(-actualDiff, -spread))
    /\ UNCHANGED <<actualDiff, spread, homeNet, corrVars, dataVars, callVars, appVars>>

NetNext == CalcHomeNet \/ CalcAwayNet

SpecNetPerf == NetInit /\ [][NetNext]_vars

C10_SwapAntisymmetric ==
    (homeNet # Null /\ awayNet # Null) =>
        /\ awayNet[1] = -homeNet[1]
        /\ homeNet[1] + awayNet[1] = 0
        /\ IF homeNet[1] = 0
             THEN awayNet[1] = 0
             ELSE (homeNet[1] > 0) # (awayNet[1] > 0)

C10_Witness ==
    /\ homeNet # Null
    /\ awayNet # Null
    /\ homeNet[1] > 0
    /\ awayNet[1] < 0
    /\ spread < 0

(***************************************************************************)
(* The loaded data: team-performance-history.json                          *)
(*                                                                         *)
(* The document is written by the aggregation run and read as it is.  A    *)
(* team's record is built here from its fixtures, each seen from the       *)
(* team's side: the date, home or away, the score (own goals, opponent's   *)
(* goals) and the line each bookmaker quoted (null: no quote).             *)
(* A date is a month count, year * 12 + month index (January is 0).        *)
(***************************************************************************)
Bookmakers == {"bet365", "pinnacle"}

Date(year, monthIndex) == year * 12 + monthIndex

getFullYear(date) == date \div 12

getMonth(date) == date % 12

Max(a, b) == IF a > b THEN a ELSE b

Min(a, b) == IF a < b THEN a ELSE b

\* a / b as JavaScript computes it; 0 / 0 is NaN
Div(a, b) == [num |-> a, den |-> b]

\* the literal 0 a guarded rate falls back to
Zero == [num |-> 0, den |-> 1]

IsNaN(q) == q.den = 0 /\ q.num = 0

IsFinite(q) == q.den # 0

\* two finite quotients are the same number
SameNumber(p, q) == IsFinite(p) /\ IsFinite(q) /\ p.num * q.den = q.num * p.den

RECURSIVE SetSum(_, _)
SetSum(S, f) ==
    IF S = {} THEN 0
    ELSE LET x == CHOOSE y \in S : TRUE
         IN f[x] + SetSum(S \ {x}, f)

\* own goals minus the opponent's, in half-goals
Margin(score) == 2 * (score[1] - score[2])

ResultOf(score) ==
    IF score[1] > score[2] THEN "W"
    ELSE IF score[1] < score[2] THEN "L" ELSE "D"

\* the mean of the lines quoted; null when no bookmaker quoted one
ConsensusSpread(lines) ==
    LET quoted == {b \in Bookmakers : lines[b] # Null}
    IN IF quoted = {} THEN Null
       ELSE Num(SetSum(quoted, [b \in quoted |-> lines[b][1]])
                    \div Cardinality(quoted))

\* one bookmaker's net performance of a fixture; null without its line
BookmakerNet(fx, b) ==
    IF fx.lines[b] = Null THEN Null
    ELSE Num(Margin(fx.score) + fx.lines[b][1])

RECURSIVE BuildHistory(_, _)
BuildHistory(fixtures, cumulative) ==
    IF fixtures = <<>> THEN <<>>
    ELSE LET fx == Head(fixtures)
             line == ConsensusSpread(fx.lines)
             net == IF line = Null THEN Null
                    ELSE Num(Margin(fx.score) + line[1])
             sofar == cumulative + ToNumber(net)
         IN <<[date |-> fx.date,
               homeAway |-> fx.homeAway,
               score |-> fx.score,
               result |-> ResultOf(fx.score),
               spread |-> line,
               netPerformance |-> net,
               cumulativeNetPerformance |-> sofar,
               netPerformanceByBookmaker |->
                   [b \in Bookmakers |-> BookmakerNet(fx, b)]]>>
            \o BuildHistory(Tail(fixtures), sofar)

\* the indices of a history that satisfy a condition
Where(matches, P(_)) == {i \in DOMAIN matches : P(matches[i])}

\* the aggregation run's statistics block: win rate over all matches, cover
\* rate and average net performance over the matches that have a line
BuildStatistics(history) ==
    LET lined == Where(history, LAMBDA m : m.netPerformance # Null)
        total == SetSum(lined, [i \in lined |-> history[i].netPerformance[1]])
        wins == Cardinality(Where(history, LAMBDA m : m.result = "W"))
        covers == Cardinality(Where(history,
                      LAMBDA m : m.netPerformance # Null /\ m.netPerformance[1] > 0))
        byBook(b) == Where(history, LAMBDA m : m.netPerformanceByBookmaker[b] # Null)
        coversBy(b) == Where(history,
                           LAMBDA m : /\ m.netPerformanceByBookmaker[b] # Null
                                      /\ m.netPerformanceByBookmaker[b][1] > 0)
    IN [matchesPlayed |-> Len(history),
        wins |-> wins,
        losses |-> Cardinality(Where(history, LAMBDA m : m.result = "L")),
        draws |-> Cardinality(Where(history, LAMBDA m : m.result = "D")),
        covers |-> covers,
        avgNetPerformance |->
            IF lined = {} THEN Zero ELSE Div(total, Cardinality(lined)),
        winRate |-> IF history = <<>> THEN Zero ELSE Div(wins, Len(history)),
        coverRate |->
            IF lined = {} THEN Zero ELSE Div(covers, Cardinality(lined)),
        coverRateByBookmaker |->
            [b \in Bookmakers |->
                IF byBook(b) = {} THEN Null
                ELSE Num(Div(Cardinality(coversBy(b)), Cardinality(byBook(b))))]]

BuildTeam(name, fixtures) ==
    LET history == BuildHistory(fixtures, 0)
        byBook(b) == Where(history, LAMBDA m : m.netPerformanceByBookmaker[b] # Null)
    IN [name |-> name,
        matchHistory |-> history,
        totalNetPerformance |->
            IF history = <<>> THEN 0
            ELSE history[Len(history)].cumulativeNetPerformance,
        totalNetPerformanceByBookmaker |->
            [b \in Bookmakers |->
                IF byBook(b) = {} THEN Null
                ELSE Num(SetSum(byBook(b),
                         [i \in byBook(b) |->
                             history[i].netPerformanceByBookmaker[b][1]]))],
        statistics |-> BuildStatistics(history)]

\* the same fixtures from the opponent's side: venue and score swapped, the
\* sign of every line inverted
Mirror(fixtures) ==
    [i \in DOMAIN fixtures |->
        [date |-> fixtures[i].date,
         homeAway |-> IF fixtures[i].homeAway = "home" THEN "away" ELSE "home",
         score |-> <<fixtures[i].score[2], fixtures[i].score[1]>>,
         lines |-> [b \in Bookmakers |->
                       IF fixtures[i].lines[b] = Null THEN Null
                       ELSE Num(-fixtures[i].lines[b][1])]]]

\* the document of a two-club league: each fixture is in both histories
League(fixtures) ==
    <<BuildTeam("Arsenal", fixtures), BuildTeam("Chelsea", Mirror(fixtures))>>

(***************************************************************************)
(* Analyzer: statistics over a slice of a team's match history             *)
(***************************************************************************)
\* matches.reduce((sum, m) => sum + m.netPerformance, 0)
RECURSIVE SumNetPerformance(_)
SumNetPerformance(matches) ==
    IF matches = <<>> THEN 0
    ELSE ToNumber(Head(matches).netPerformance) + SumNetPerformance(Tail(matches))

\* array.slice(start): from a negative start, the last -start elements
slice(array, start) ==
    LET from == IF start < 0 THEN Max(Len(array) + start, 0)
                ELSE Min(start, Len(array))
    IN SubSeq(array, from + 1, Len(array))

\* a cover counted from zero up: m.netPerformance >= 0
calculateStats_coverFromZero(matches) ==
    LET netPerformance == SumNetPerformance(matches)
        wins == Cardinality(Where(matches, LAMBDA m : m.result = "W"))
        covers == Cardinality(Where(matches,
                      LAMBDA m : ToNumber(m.netPerformance) >= 0))
        matchesPlayed == Len(matches)
    IN [matchesPlayed |-> matchesPlayed,
        wins |-> wins,
        losses |-> Cardinality(Where(matches, LAMBDA m : m.result = "L")),
        draws |-> Cardinality(Where(matches, LAMBDA m : m.result = "D")),
        covers |-> covers,
        avgNetPerformance |->
            IF matchesPlayed > 0 THEN Div(netPerformance, matchesPlayed) ELSE Zero,
        winRate |-> IF matchesPlayed > 0 THEN Div(wins, matchesPlayed) ELSE Zero,
        coverRate |-> IF matchesPlayed > 0 THEN Div(covers, matchesPlayed) ELSE Zero]

\* the rates divided without the matchesPlayed > 0 guard
calculateStats_unguarded(matches) ==
    LET netPerformance == SumNetPerformance(matches)
        wins == Cardinality(Where(matches, LAMBDA m : m.result = "W"))
        covers == Cardinality(Where(matches,
                      LAMBDA m : ToNumber(m.netPerformance) > 0))
        matchesPlayed == Len(matches)
    IN [matchesPlayed |-> matchesPlayed,
        wins |-> wins,
        losses |-> Cardinality(Where(matches, LAMBDA m : m.result = "L")),
        draws |-> Cardinality(Where(matches, LAMBDA m : m.result = "D")),
        covers |-> covers,
        avgNetPerformance |-> Div(netPerformance, matchesPlayed),
        winRate |-> Div(wins, matchesPlayed),
        coverRate |-> Div(covers, matchesPlayed)]

\* a draw counted among the losses as well
calculateStats_drawsLost(matches) ==
    [calculateStats_unguarded(matches) EXCEPT
        !.losses = Cardinality(Where(matches, LAMBDA m : m.result # "W")),
        !.avgNetPerformance = Zero,
        !.winRate = Zero,
        !.coverRate = Zero]

calculateStats(matches) ==
    LET netPerformance == SumNetPerformance(matches)
        wins == Cardinality(Where(matches, LAMBDA m : m.result = "W"))
        losses == Cardinality(Where(matches, LAMBDA m : m.result = "L"))
        draws == Cardinality(Where(matches, LAMBDA m : m.result = "D"))
        covers == Cardinality(Where(matches,
                      LAMBDA m : ToNumber(m.netPerformance) > 0))
        matchesPlayed == Len(matches)
    IN [matchesPlayed |-> matchesPlayed,
        wins |-> wins,
        losses |-> losses,
        draws |-> draws,
        covers |-> covers,
        avgNetPerformance |->
            IF matchesPlayed > 0 THEN Div(netPerformance, matchesPlayed) ELSE Zero,
        winRate |-> IF matchesPlayed > 0 THEN Div(wins, matchesPlayed) ELSE Zero,
        coverRate |-> IF matchesPlayed > 0 THEN Div(covers, matchesPlayed) ELSE Zero]

\* the location left out of the filter
filterMatchesByLocation_ignored(matches, location) == matches

filterMatchesByLocation(matches, location) ==
    IF location = "all" THEN matches
    ELSE SelectSeq(matches, LAMBDA m : m.homeAway = location)

\* { ...team, totalNetPerformance: netPerf, statistics: calculateStats(matches) }
WithMatches(team, matches) ==
    [team EXCEPT !.totalNetPerformance = SumNetPerformance(matches),
                 !.statistics = calculateStats(matches)]

\* the matches the time filter keeps, before the location filter
TimeFiltered(team, filterType, today) ==
    CASE filterType = "last5" -> slice(team.matchHistory, -5)
      [] filterType = "last10" -> slice(team.matchHistory, -10)
      [] filterType = "season" ->
            LET currentYear == getFullYear(today)
                seasonStart == Date(currentYear, 7)
            IN SelectSeq(team.matchHistory, LAMBDA m : m.date >= seasonStart)
      [] OTHER -> team.matchHistory

\* the location filter applied before the time filter
getFilteredTeams_locationFirst(data, filterType, location, today) ==
    [i \in DOMAIN data |->
        WithMatches(data[i],
            TimeFiltered([data[i] EXCEPT
                             !.matchHistory = filterMatchesByLocation(@, location)],
                         filterType, today))]

getFilteredTeams(data, filterType, location, today) ==
    IF filterType \notin {"last5", "last10", "season"} /\ location = "all"
    THEN data
    ELSE [i \in DOMAIN data |->
            WithMatches(data[i],
                filterMatchesByLocation(
                    TimeFiltered(data[i], filterType, today), location))]

getTeamsForLastNMatches(data, n) ==
    [i \in DOMAIN data |->
        LET recentMatches == slice(data[i].matchHistory, -n)
            recentNetPerformance == SumNetPerformance(recentMatches)
            wins == Cardinality(Where(recentMatches, LAMBDA m : m.result = "W"))
            losses == Cardinality(Where(recentMatches, LAMBDA m : m.result = "L"))
            draws == Cardinality(Where(recentMatches, LAMBDA m : m.result = "D"))
            covers == Cardinality(Where(recentMatches,
                          LAMBDA m : ToNumber(m.netPerformance) > 0))
            matchesPlayed == Len(recentMatches)
        IN [data[i] EXCEPT
              !.totalNetPerformance = recentNetPerformance,
              !.statistics =
                 [matchesPlayed |-> matchesPlayed,
                  wins |-> wins,
                  losses |-> losses,
                  draws |-> draws,
                  covers |-> covers,
                  avgNetPerformance |->
                      IF matchesPlayed > 0
                      THEN Div(recentNetPerformance, matchesPlayed) ELSE Zero,
                  winRate |->
                      IF matchesPlayed > 0 THEN Div(wins, matchesPlayed) ELSE Zero,
                  coverRate |->
                      IF matchesPlayed > 0 THEN Div(covers, matchesPlayed) ELSE Zero]]]

(***************************************************************************)
(* Dashboard: the team-detail view's own statistics                        *)
(***************************************************************************)
\* what the home/away panel shows; a rate of null is shown as 'N/A'
renderHomeAwayBreakdown(teamData) ==
    LET homeMatches == SelectSeq(teamData.matchHistory, LAMBDA m : m.homeAway = "home")
        awayMatches == SelectSeq(teamData.matchHistory, LAMBDA m : m.homeAway = "away")
        homeNetPerf == SumNetPerformance(homeMatches)
        homeWins == Cardinality(Where(homeMatches, LAMBDA m : m.result = "W"))
        homeCovers == Cardinality(Where(homeMatches,
                          LAMBDA m : ToNumber(m.netPerformance) > 0))
        awayNetPerf == SumNetPerformance(awayMatches)
        awayWins == Cardinality(Where(awayMatches, LAMBDA m : m.result = "W"))
        awayCovers == Cardinality(Where(awayMatches,
                          LAMBDA m : ToNumber(m.netPerformance) > 0))
    IN [homeNetPerf |-> homeNetPerf,
        homeMatches |-> Len(homeMatches),
        homeCovers |-> homeCovers,
        homeWinRate |-> IF Len(homeMatches) > 0
                        THEN Num(Div(homeWins, Len(homeMatches))) ELSE Null,
        homeCoverRate |-> IF Len(homeMatches) > 0
                          THEN Num(Div(homeCovers, Len(homeMatches))) ELSE Null,
        awayNetPerf |-> awayNetPerf,
        awayMatches |-> Len(awayMatches),
        awayCovers |-> awayCovers,
        awayWinRate |-> IF Len(awayMatches) > 0
                        THEN Num(Div(awayWins, Len(awayMatches))) ELSE Null,
        awayCoverRate |-> IF Len(awayMatches) > 0
                          THEN Num(Div(awayCovers, Len(awayMatches))) ELSE Null]

getNetPerfClass(value) ==
    IF ToNumber(value) >= 0 THEN "net-perf-positive" ELSE "net-perf-negative"

\* [...array].reverse()
reverse(array) == [i \in DOMAIN array |-> array[Len(array) + 1 - i]]

\* the rows of the match history table, most recent first
renderMatchHistoryTable(teamData) ==
    LET matches == reverse(teamData.matchHistory)
    IN [i \in DOMAIN matches |->
          LET match == matches[i]
              actualMargin == Margin(match.score)
              expectedMargin == -ToNumber(match.spread)
              beatSpread == ToNumber(match.netPerformance) > 0
          IN [date |-> match.date,
              homeAway |-> match.homeAway,
              result |-> match.result,
              expectedMargin |-> expectedMargin,
              actualMargin |-> actualMargin,
              netPerformance |-> match.netPerformance,
              netPerfClass |-> getNetPerfClass(match.netPerformance),
              beatSpread |-> beatSpread]]

(***************************************************************************)
(* The calls made on the loaded data                                       *)
(***************************************************************************)
FilterTypes == {"all", "last5", "last10", "season"}

Locations == {"all", "home", "away"}

\* the windows getFilteredTeams has: the last 5 and the last 10 matches
LastN == {5, 10}

GetFilteredTeams ==
    \E filterType \in FilterTypes, location \in Locations :
        /\ call' = [op |-> "getFilteredTeams",
                    filterType |-> filterType, location |-> location]
        /\ returned' = getFilteredTeams(teams, filterType, location, now)
        /\ UNCHANGED <<netVars, corrVars, dataVars, appVars>>

GetTeamsForLastNMatches ==
    \E n \in LastN :
        /\ call' = [op |-> "getTeamsForLastNMatches", n |-> n]
        /\ returned' = getTeamsForLastNMatches(teams, n)
        /\ UNCHANGED <<netVars, corrVars, dataVars, appVars>>

RenderHomeAwayBreakdown ==
    \E i \in DOMAIN teams :
        /\ call' = [op |-> "renderHomeAwayBreakdown", team |-> i]
        /\ returned' = renderHomeAwayBreakdown(teams[i])
        /\ UNCHANGED <<netVars, corrVars, dataVars, appVars>>

RenderMatchHistoryTable ==
    \E i \in DOMAIN teams :
        /\ call' = [op |-> "renderMatchHistoryTable", team |-> i]
        /\ returned' = renderMatchHistoryTable(teams[i])
        /\ UNCHANGED <<netVars, corrVars, dataVars, appVars>>

AnalyzerNext ==
    \/ GetFilteredTeams
    \/ GetTeamsForLastNMatches
    \/ RenderHomeAwayBreakdown
    \/ RenderMatchHistoryTable

(***************************************************************************)
(* Data sets                                                               *)
(*                                                                         *)
(* Three families of documents, each varied where its claims need it:      *)
(* short histories of varied matches (every sign of net performance, a     *)
(* match with no line, both venues, every result); histories that span     *)
(* two seasons, read before and after 1 August; and histories longer than  *)
(* the last-5 and last-10 windows.                                         *)
(***************************************************************************)
\* most matches of a team's history, short histories of varied matches
MaxHistory == 2

\* most matches of a team's history, histories that span two seasons
MaxSeasonHistory == 2

\* most matches of a team's history, histories longer than the windows
MaxWindowHistory == 11

\* September of last year, March and September of this year
MatchDates == {Date(1, 8), Date(2, 2), Date(2, 8)}

\* April (in the season that began last August) and October of this year
Todays == {Date(2, 3), Date(2, 9)}

Scores == {<<1, 0>>, <<0, 0>>, <<0, 1>>}

OnlyBet365(line) == [b \in Bookmakers |-> IF b = "bet365" THEN line ELSE Null]

VariedFixtures ==
    [date : {Date(2, 8)}, homeAway : {"home", "away"}, score : Scores,
     lines : {OnlyBet365(l) : l \in {Null, Num(-2), Num(1)}}]

SeasonFixtures ==
    [date : MatchDates, homeAway : {"home", "away"},
     score : {<<1, 0>>, <<0, 1>>}, lines : {OnlyBet365(Num(-1))}]

WindowFixtures ==
    [date : {Date(2, 8)}, homeAway : {"home", "away"},
     score : {<<1, 0>>}, lines : {OnlyBet365(Num(-1))}]

\* a history is in ascending date order
Chronological(fixtures) ==
    \A i \in DOMAIN fixtures : \A j \in DOMAIN fixtures :
        i < j => fixtures[i].date <= fixtures[j].date

Histories(kinds, longest) ==
    {h \in UNION {[1..n -> kinds] : n \in 1..longest} : Chronological(h)}

\* every match of the document is in the past
Played(data, today) ==
    \A t \in DOMAIN data : \A i \in DOMAIN data[t].matchHistory :
        data[t].matchHistory[i].date <= today

\* a document of the family is loaded and no call has been made
Loaded(kinds, longest, todays) ==
    /\ NetIdle
    /\ CorrIdle
    /\ AppIdle
    /\ teams \in {League(h) : h \in Histories(kinds, longest)}
    /\ now \in todays
    /\ Played(teams, now)
    /\ call = [op |-> "none"]
    /\ returned = Null

StatsInit == Loaded(VariedFixtures, MaxHistory, {Date(2, 9)})

SeasonInit == Loaded(SeasonFixtures, MaxSeasonHistory, Todays)

WindowInit == Loaded(WindowFixtures, MaxWindowHistory, {Date(2, 9)})

SpecStats == StatsInit /\ [][AnalyzerNext]_vars

SpecSeason == SeasonInit /\ [][AnalyzerNext]_vars

\* the histories longer than the windows are only filtered, not rendered
WindowNext == GetFilteredTeams \/ GetTeamsForLastNMatches

SpecWindow == WindowInit /\ [][WindowNext]_vars

(***************************************************************************)
(* What the claims speak of                                                *)
(***************************************************************************)
\* net performance strictly greater than zero
StrictCover(m) == m.netPerformance # Null /\ m.netPerformance[1] > 0

\* getFilteredTeams was called and recomputed every record
Recomputed ==
    /\ call.op = "getFilteredTeams"
    /\ ~(call.filterType = "all" /\ call.location = "all")

\* the matches of a team that the filters of the call keep
Kept(team) ==
    filterMatchesByLocation(TimeFiltered(team, call.filterType, now),
                            call.location)

C9_RatesDefaultToZero ==
    (Recomputed \/ call.op = "getTeamsForLastNMatches") =>
        \A t \in DOMAIN teams :
            LET kept == IF Recomputed THEN Kept(teams[t])
                        ELSE slice(teams[t].matchHistory, -call.n)
                stats == returned[t].statistics
            IN /\ kept = <<>> =>
                     /\ stats.winRate = Zero
                     /\ stats.coverRate = Zero
                     /\ stats.avgNetPerformance = Zero
               /\ IsFinite(stats.winRate)
               /\ IsFinite(stats.coverRate)
               /\ IsFinite(stats.avgNetPerformance)

\* a location filter that leaves a team without a match
C9_Witness ==
    /\ Recomputed
    /\ \E t \in DOMAIN teams :
          /\ Kept(teams[t]) = <<>>
          /\ teams[t].matchHistory # <<>>
          /\ returned[t].statistics.matchesPlayed = 0
          /\ returned[t].statistics.coverRate = Zero

(***************************************************************************)
(* C3: for every team and every filter, the record getFilteredTeams        *)
(* returns carries cumulative net performance recomputed from 0 at the     *)
(* first match of the filtered subset: its matches are the filtered ones,  *)
(* the cumulative value at each is the sum of netPerformance over the      *)
(* filtered matches up to it, and totalNetPerformance is the sum over the  *)
(* filtered subset.                                                        *)
(***************************************************************************)
C3_FilteredCumulativeFromZero ==
    Recomputed =>
        \A t \in DOMAIN teams :
            LET kept == Kept(teams[t])
                record == returned[t]
            IN /\ record.totalNetPerformance = SumNetPerformance(kept)
               /\ Len(record.matchHistory) = Len(kept)
               /\ \A i \in DOMAIN kept :
                     record.matchHistory[i].cumulativeNetPerformance
                         = SumNetPerformance(SubSeq(kept, 1, i))

\* the 1 August that began the season in progress at a date
SeasonInProgressStart(today) ==
    IF getMonth(today) >= 7 THEN Date(getFullYear(today), 7)
    ELSE Date(getFullYear(today) - 1, 7)

(***************************************************************************)
(* C4: for every current date the 'season' filter keeps exactly the        *)
(* matches dated on or after the 1 August that began the season in         *)
(* progress, whether the current date is before or after 1 August of its   *)
(* calendar year.                                                          *)
(***************************************************************************)
C4_SeasonFilterKeepsSeasonInProgress ==
    (call.op = "getFilteredTeams" /\ call.filterType = "season") =>
        \A t \in DOMAIN teams :
            LET start == SeasonInProgressStart(now)
                inSeason == SelectSeq(teams[t].matchHistory,
                                      LAMBDA m : m.date >= start)
                expected == filterMatchesByLocation(inSeason, call.location)
            IN /\ returned[t].statistics.matchesPlayed = Len(expected)
               /\ returned[t].totalNetPerformance = SumNetPerformance(expected)
               /\ returned[t].statistics = calculateStats(expected)

(***************************************************************************)
(* C5: in the statistics getFilteredTeams computes, coverRate and          *)
(* avgNetPerformance are taken over the matches that have a spread only:   *)
(* the matches whose spread and netPerformance are null change neither.    *)
(***************************************************************************)
C5_NullSpreadLeavesRates ==
    Recomputed =>
        \A t \in DOMAIN teams :
            LET kept == Kept(teams[t])
                lined == SelectSeq(kept, LAMBDA m : m.spread # Null)
                stats == returned[t].statistics
            IN /\ SameNumber(stats.coverRate, calculateStats(lined).coverRate)
               /\ SameNumber(stats.avgNetPerformance,
                             calculateStats(lined).avgNetPerformance)

sort(array, keys) ==
    LET rank(i) == 1 + Cardinality({j \in DOMAIN array :
                        keys[j] < keys[i] \/ (keys[j] = keys[i] /\ j < i)})
    IN [r \in DOMAIN array |-> array[CHOOSE i \in DOMAIN array : rank(i) = r]]

\* the clubs of the document in the order localeCompare puts their names
Alphabet == <<"Arsenal", "Chelsea">>

localeCompare(a, b) ==
    (CHOOSE i \in DOMAIN Alphabet : Alphabet[i] = a)
        - (CHOOSE i \in DOMAIN Alphabet : Alphabet[i] = b)

getTeamsSortedByPerformance(data, descending) ==
    sort(data, [i \in DOMAIN data |->
                   IF descending THEN -data[i].totalNetPerformance
                   ELSE data[i].totalNetPerformance])

getTeamsSortedAlphabetically(data) ==
    sort(data, [i \in DOMAIN data |-> localeCompare(data[i].name, Alphabet[1])])

\* the bar chart's teams.  this: data, sortBy, filterBy, locationBy, bookmaker.
\* A bookmaker with no line in any match of a team has no key in the team's
\* totalNetPerformanceByBookmaker (undefined): null here.
sortTeams(this, today) ==
    LET filteredTeams == getFilteredTeams(this.data, this.filterBy,
                                          this.locationBy, today)
        teamsWithBookmaker ==
            [i \in DOMAIN filteredTeams |->
                LET team == filteredTeams[i]
                IN IF this.bookmaker = "consensus" THEN team
                   ELSE LET bkPerf == team.totalNetPerformanceByBookmaker[this.bookmaker]
                        IN IF bkPerf # Null
                           THEN [team EXCEPT !.totalNetPerformance = bkPerf[1]]
                           ELSE team]
    IN IF this.sortBy = "alphabetical"
       THEN getTeamsSortedAlphabetically(teamsWithBookmaker)
       ELSE getTeamsSortedByPerformance(teamsWithBookmaker, TRUE)

\* the scatter plot's teams.  this: data, filterBy, locationBy, bookmaker
getTeams(this, today) ==
    LET filteredTeams == getFilteredTeams(this.data, this.filterBy,
                                          this.locationBy, today)
        point(team) ==
            LET byBookmaker ==
                    IF "coverRateByBookmaker" \in DOMAIN team.statistics
                    THEN team.statistics.coverRateByBookmaker[this.bookmaker]
                    ELSE Null
                coverRate ==
                    IF \/ this.bookmaker = "consensus"
                       \/ "coverRateByBookmaker" \notin DOMAIN team.statistics
                    THEN team.statistics.coverRate
                    ELSE IF byBookmaker # Null THEN byBookmaker[1]
                         ELSE team.statistics.coverRate
                totalNetPerf ==
                    IF this.bookmaker = "consensus" THEN team.totalNetPerformance
                    ELSE IF team.totalNetPerformanceByBookmaker[this.bookmaker] # Null
                         THEN team.totalNetPerformanceByBookmaker[this.bookmaker][1]
                         ELSE team.totalNetPerformance
                matchesPlayed == team.statistics.matchesPlayed
                avgNetPerf == IF matchesPlayed > 0
                              THEN Div(totalNetPerf, matchesPlayed) ELSE Zero
            IN [name |-> team.name,
                xValue |-> Div(coverRate.num * 100, coverRate.den),
                yValue |-> avgNetPerf,
                totalNetPerformance |-> totalNetPerf,
                matchesPlayed |-> matchesPlayed,
                winRate |-> team.statistics.winRate,
                coverRate |-> coverRate]
    IN SelectSeq([i \in DOMAIN filteredTeams |-> point(filteredTeams[i])],
                 LAMBDA t : t.matchesPlayed > 0)

SortBys == {"performance", "alphabetical"}

\* the chart's bookmaker selection
Selections == {"consensus"} \cup Bookmakers

SortTeams ==
    \E sortBy \in SortBys, filterBy \in FilterTypes,
       locationBy \in Locations, bookmaker \in Selections :
        /\ call' = [op |-> "sortTeams", sortBy |-> sortBy, filterBy |-> filterBy,
                    locationBy |-> locationBy, bookmaker |-> bookmaker]
        /\ returned' = sortTeams([data |-> teams, sortBy |-> sortBy,
                                  filterBy |-> filterBy, locationBy |-> locationBy,
                                  bookmaker |-> bookmaker], now)
        /\ UNCHANGED <<netVars, corrVars, dataVars, appVars>>

GetTeams ==
    \E filterBy \in FilterTypes, locationBy \in Locations, bookmaker \in Selections :
        /\ call' = [op |-> "getTeams", filterBy |-> filterBy,
                    locationBy |-> locationBy, bookmaker |-> bookmaker]
        /\ returned' = getTeams([data |-> teams, filterBy |-> filterBy,
                                 locationBy |-> locationBy,
                                 bookmaker |-> bookmaker], now)
        /\ UNCHANGED <<netVars, corrVars, dataVars, appVars>>

ChartNext == SortTeams \/ GetTeams

\* most matches of a team's history, documents with two bookmakers
MaxChartHistory == 2

\* both bookmakers quote (-1.0 and -2.0, consensus -1.5), or bet365 alone
ChartFixtures ==
    [date : {Date(2, 8)}, homeAway : {"home", "away"},
     score : {<<1, 0>>, <<0, 1>>},
     lines : {[b \in Bookmakers |-> IF b = "bet365" THEN Num(-2) ELSE Num(-4)],
              OnlyBet365(Num(-2))}]

ChartInit == Loaded(ChartFixtures, MaxChartHistory, {Date(2, 9)})

SpecChart == ChartInit /\ [][ChartNext]_vars

\* the team of the document that a drawn team stands for
TeamNamed(name) == teams[CHOOSE t \in DOMAIN teams : teams[t].name = name]

\* the matches of a team that the chart's filters keep
ChartKept(team) ==
    filterMatchesByLocation(TimeFiltered(team, call.filterBy, now),
                            call.locationBy)

(***************************************************************************)
(* C7: with a bookmaker selected in the performance chart together with    *)
(* any time or location filter, the totalNetPerformance of each team drawn *)
(* (and the average per match taken from it) is that bookmaker's net       *)
(* performance summed over exactly the filtered matches for which the      *)
(* bookmaker reported a line.                                              *)
(***************************************************************************)
C7_BookmakerTotalOverFilteredMatches ==
    (call.op \in {"sortTeams", "getTeams"} /\ call.bookmaker # "consensus") =>
        \A r \in DOMAIN returned :
            LET kept == ChartKept(TeamNamed(returned[r].name))
                quoted == {i \in DOMAIN kept :
                             kept[i].netPerformanceByBookmaker[call.bookmaker] # Null}
                total == SetSum(quoted,
                             [i \in quoted |->
                                kept[i].netPerformanceByBookmaker[call.bookmaker][1]])
            IN quoted # {} =>
                  /\ returned[r].totalNetPerformance = total
                  /\ call.op = "getTeams" =>
                        SameNumber(returned[r].yValue, Div(total, Len(kept)))

(***************************************************************************)
(* Analyzer.calculateCorrelation                                           *)
(*                                                                         *)
(* The function works in IEEE 754 binary floating point: every sum and     *)
(* product is rounded to the nearest representable number, ties to even.   *)
(* The arithmetic is modelled with a significand of MantissaBits bits in   *)
(* place of the 53 of a JavaScript number, over integer inputs, so that    *)
(* the rounding of the sums of squares happens on small numbers.  The      *)
(* value numerator / Math.sqrt(radicand) is the record                     *)
(* [num |-> numerator, radicand |-> radicand]: it is NaN when the radicand *)
(* is negative, and it is 0 when the numerator is 0 and it is not NaN.     *)
(***************************************************************************)
\* bits of the significand
MantissaBits == 5

\* most observations of a sequence
MaxPoints == 3

\* largest value of the first sequence
MaxX == 7

\* largest value of the second sequence
MaxY == 2

\* the spacing of the representable numbers at the magnitude of k >= 0
RECURSIVE Ulp(_)
Ulp(k) == IF k < 2^MantissaBits THEN 1 ELSE 2 * Ulp(k \div 2)

\* the representable number nearest to k, ties to the even significand
Round(k) ==
    LET magnitude == Abs(k)
        ulp == Ulp(magnitude)
        low == magnitude \div ulp
        rest == magnitude % ulp
        up == 2 * rest > ulp \/ (2 * rest = ulp /\ low % 2 = 1)
        nearest == (IF up THEN low + 1 ELSE low) * ulp
    IN IF k < 0 THEN -nearest ELSE nearest

\* a + b, a - b and a * b of two numbers
FAdd(a, b) == Round(a + b)

FSub(a, b) == Round(a - b)

FMul(a, b) == Round(a * b)

\* values.reduce((a, b) => a + b, acc)
RECURSIVE reduce(_, _)
reduce(values, acc) ==
    IF values = <<>> THEN acc
    ELSE reduce(Tail(values), FAdd(acc, Head(values)))

\* the literal 0 the function returns
ZeroCorrelation == [num |-> 0, radicand |-> 1]

calculateCorrelation(xs, ys) ==
    LET n == Len(xs)
        sumX == reduce(xs, 0)
        sumY == reduce(ys, 0)
        sumXY == reduce([i \in DOMAIN xs |-> FMul(xs[i], ys[i])], 0)
        sumX2 == reduce([i \in DOMAIN xs |-> FMul(xs[i], xs[i])], 0)
        sumY2 == reduce([i \in DOMAIN ys |-> FMul(ys[i], ys[i])], 0)
        numerator == FSub(FMul(n, sumXY), FMul(sumX, sumY))
        \* denominator = Math.sqrt(radicand): NaN below 0, 0 only at 0
        radicand == FMul(FSub(FMul(n, sumX2), FMul(sumX, sumX)),
                         FSub(FMul(n, sumY2), FMul(sumY, sumY)))
    IN IF n # Len(ys) \/ n = 0 THEN ZeroCorrelation
       ELSE IF radicand = 0 THEN ZeroCorrelation
       ELSE [num |-> numerator, radicand |-> radicand]

CorrelationIsNaN(r) == r.radicand < 0

CorrelationIsZero(r) == r.radicand > 0 /\ r.num = 0

Observations(largest) == UNION {[1..n -> 0..largest] : n \in 0..MaxPoints}

CorrInit ==
    /\ NetIdle
    /\ DataIdle
    /\ AppIdle
    /\ xValues \in Observations(MaxX)
    /\ yValues \in Observations(MaxY)
    /\ correlation = Null

CalculateCorrelation ==
    /\ correlation = Null
    /\ correlation' = Num(calculateCorrelation(xValues, yValues))
    /\ UNCHANGED <<xValues, yValues, netVars, dataVars, callVars, appVars>>

CorrNext == CalculateCorrelation

SpecCorrelation == CorrInit /\ [][CorrNext]_vars

\* a sequence all of whose values are the same
Constant(values) ==
    \A i \in DOMAIN values : \A j \in DOMAIN values : values[i] = values[j]

(***************************************************************************)
(* C8: calculateCorrelation returns exactly 0, and not NaN, whenever there *)
(* are fewer than 2 paired observations (empty input and inputs of         *)
(* different lengths included) or either sequence is constant.             *)
(***************************************************************************)
C8_CorrelationZeroWhenDegenerate ==
    (/\ correlation # Null
     /\ \/ Len(xValues) # Len(yValues)
        \/ Len(xValues) < 2
        \/ Constant(xValues)
        \/ Constant(yValues)) =>
        /\ ~CorrelationIsNaN(correlation[1])
        /\ CorrelationIsZero(correlation[1])

(***************************************************************************)
(* Analyzer: the sorted lists as calls on the loaded data                  *)
(*                                                                         *)
(* Array.prototype.sort sorts the array it is called on, in place.  The    *)
(* array each function sorts is named here: "copy" is the fresh array      *)
(* [...data.performance.teams], "data" is data.performance.teams itself.   *)
(***************************************************************************)
\* the sort made on the loaded array itself: const teams = data.performance.teams
PerformanceSortReceiver_data == "data"

\* getTeamsSortedByPerformance: const teams = [...data.performance.teams]
PerformanceSortReceiver == "copy"

\* getTeamsSortedAlphabetically: const teams = [...data.performance.teams]
AlphabeticalSortReceiver == "copy"

\* data.performance.teams after receiver.sort() has left the array sorted
AfterSort(data, receiver, sorted) == IF receiver = "data" THEN sorted ELSE data

\* array.slice(0, end)
sliceTo(array, end) == SubSeq(array, 1, Min(end, Len(array)))

getTopTeams(data, n) == sliceTo(getTeamsSortedByPerformance(data, TRUE), n)

getBottomTeams(data, n) == sliceTo(getTeamsSortedByPerformance(data, FALSE), n)

\* the n of getTopTeams and getBottomTeams; 5 is the default
TopN == {1, 5}

GetTeamsSortedByPerformance ==
    \E descending \in BOOLEAN :
        /\ call' = [op |-> "getTeamsSortedByPerformance", descending |-> descending]
        /\ returned' = getTeamsSortedByPerformance(teams, descending)
        /\ teams' = AfterSort(teams, PerformanceSortReceiver, returned')
        /\ UNCHANGED <<netVars, corrVars, now, appVars>>

GetTeamsSortedAlphabetically ==
    /\ call' = [op |-> "getTeamsSortedAlphabetically"]
    /\ returned' = getTeamsSortedAlphabetically(teams)
    /\ teams' = AfterSort(teams, AlphabeticalSortReceiver, returned')
    /\ UNCHANGED <<netVars, corrVars, now, appVars>>

GetTopTeams ==
    \E n \in TopN :
        /\ call' = [op |-> "getTopTeams", n |-> n]
        /\ returned' = getTopTeams(teams, n)
        /\ teams' = AfterSort(teams, PerformanceSortReceiver,
                              getTeamsSortedByPerformance(teams, TRUE))
        /\ UNCHANGED <<netVars, corrVars, now, appVars>>

GetBottomTeams ==
    \E n \in TopN :
        /\ call' = [op |-> "getBottomTeams", n |-> n]
        /\ returned' = getBottomTeams(teams, n)
        /\ teams' = AfterSort(teams, PerformanceSortReceiver,
                              getTeamsSortedByPerformance(teams, FALSE))
        /\ UNCHANGED <<netVars, corrVars, now, appVars>>

ResliceNext ==
    \/ GetFilteredTeams
    \/ GetTeamsForLastNMatches
    \/ GetTeamsSortedByPerformance
    \/ GetTeamsSortedAlphabetically
    \/ GetTopTeams
    \/ GetBottomTeams

SpecReslice == StatsInit /\ [][ResliceNext]_vars

(***************************************************************************)
(* C11: filtering and sorting are pure re-slicing: no call of              *)
(* getFilteredTeams, getTeamsForLastNMatches, getTeamsSortedByPerformance, *)
(* getTeamsSortedAlphabetically, getTopTeams or getBottomTeams changes     *)
(* data.performance.teams (its order, any team's totalNetPerformance,      *)
(* statistics or matchHistory), so a later call with filter 'all' returns  *)
(* the original values.                                                    *)
(***************************************************************************)
C11_ReslicingLeavesData ==
    /\ [][teams' = teams]_vars
    /\ [](\A t \in DOMAIN teams : teams[t].name = Alphabet[t])
    /\ []((/\ call.op = "getFilteredTeams"
           /\ call.filterType = "all"
           /\ call.location = "all") => returned = teams)

\* a sort by performance that returned the teams in another order than the
\* loaded one
C11_Witness ==
    /\ call.op = "getTeamsSortedByPerformance"
    /\ call.descending
    /\ returned[1].name = "Chelsea"
    /\ teams[1].name = "Arsenal"
    /\ returned[1].totalNetPerformance > returned[2].totalNetPerformance

(***************************************************************************)
(* DataLoader: the cache in localStorage and loadAll                       *)
(*                                                                         *)
(* The stored item is null (no item), a text JSON.parse rejects, or the    *)
(* text of a data object; a data object whose timestamp is missing has     *)
(* timestamp null, and Date.now() - undefined is NaN.  localStorage is     *)
(* taken to have room: setItem does not throw.                             *)
(* loadAll awaits its three fetches: it is the step LoadAll (getCached,    *)
(* and the fetches started) followed by the step FetchSettle.              *)
(***************************************************************************)
CACHE_DURATION == 3600000

\* the hours of clock time the model spans
MaxHours == 2

\* the instants looked at: each whole number of cache durations, the
\* millisecond before it and the millisecond after it
Instants ==
    {t \in {k * CACHE_DURATION + e : k \in 0..MaxHours, e \in {-1, 0, 1}} : t >= 0}

\* JSON.stringify(data)
stringify(data) == [text |-> "json", value |-> data]

\* a stored text that JSON.parse throws on
Unparsable == [text |-> "garbage"]

\* the cache read with <= in place of <
getCached_inclusive(stored, dateNow) ==
    IF stored = Null THEN [result |-> Null, storage |-> stored]
    ELSE IF stored.text # "json" THEN [result |-> Null, storage |-> Null]
    ELSE LET cached == stored.value
         IN IF /\ cached.timestamp # Null
               /\ dateNow - cached.timestamp[1] <= CACHE_DURATION
            THEN [result |-> Num(cached), storage |-> stored]
            ELSE [result |-> Null, storage |-> Null]

\* the expired or unparsable entry left in storage
getCached_kept(stored, dateNow) ==
    IF stored = Null THEN [result |-> Null, storage |-> stored]
    ELSE IF stored.text # "json" THEN [result |-> Null, storage |-> stored]
    ELSE LET cached == stored.value
         IN IF /\ cached.timestamp # Null
               /\ dateNow - cached.timestamp[1] < CACHE_DURATION
            THEN [result |-> Num(cached), storage |-> stored]
            ELSE [result |-> Null, storage |-> stored]

\* getCached: what it returns and what it leaves in storage
getCached(stored, dateNow) ==
    IF stored = Null THEN [result |-> Null, storage |-> stored]
    ELSE IF stored.text # "json"
         \* JSON.parse throws: the catch removes the item
         THEN [result |-> Null, storage |-> Null]
    ELSE LET cached == stored.value
             \* age = Date.now() - cached.timestamp; NaN < n is false
         IN IF /\ cached.timestamp # Null
               /\ dateNow - cached.timestamp[1] < CACHE_DURATION
            THEN [result |-> Num(cached), storage |-> stored]
            ELSE [result |-> Null, storage |-> Null]

\* setCache: the storage after it
setCache(stored, data) == stringify(data)

\* the data object of a fetch in which the two required documents arrived
FreshData(kalshiOk, dateNow) ==
    [performance |-> "team-performance-history.json",
     odds |-> "latest-odds.json",
     kalshi |-> IF kalshiOk THEN Num("kalshi-odds.json") ELSE Null,
     timestamp |-> Num(dateNow)]

LoadError == [message |-> "Failed to load dashboard data. Please refresh the page."]

\* the two required documents arrived but the odds were not waited for
settle_partial(stored, answers, dateNow) ==
    IF answers.performance
    THEN [storage |-> setCache(stored, FreshData(answers.kalshi, dateNow)),
          state |-> IF answers.odds THEN "returned" ELSE "thrown",
          result |-> IF answers.odds THEN Num(FreshData(answers.kalshi, dateNow))
                     ELSE Num(LoadError)]
    ELSE [storage |-> stored, state |-> "thrown", result |-> Num(LoadError)]

\* loadAll after its await: Promise.all of the three fetches has settled,
\* the fetch of kalshi-odds.json with .catch(() => null)
settle(stored, answers, dateNow) ==
    IF answers.performance /\ answers.odds
    THEN LET data == FreshData(answers.kalshi, dateNow)
         IN [storage |-> setCache(stored, data),
             state |-> "returned",
             result |-> Num(data)]
    ELSE [storage |-> stored, state |-> "thrown", result |-> Num(LoadError)]

\* loadAll up to its await: the cache read, and the fetches started
LoadAll ==
    /\ loadState # "fetching"
    /\ LET cached == getCached(storage, clock)
       IN /\ storage' = cached.storage
          /\ IF cached.result # Null
             THEN /\ loadState' = "returned"
                  /\ loadResult' = cached.result
                  /\ fetched' = FALSE
             ELSE /\ loadState' = "fetching"
                  /\ loadResult' = Null
                  /\ fetched' = TRUE
    /\ responses' = Null
    /\ untouched' = storage
    /\ UNCHANGED <<clock, analysisVars, pageVars, uiVars>>

\* each fetchJSON was answered (TRUE) or failed (FALSE)
Answers == [performance : BOOLEAN, odds : BOOLEAN, kalshi : BOOLEAN]

\* Promise.all settles and loadAll runs to its end
FetchSettle ==
    /\ loadState = "fetching"
    /\ \E answers \in Answers :
          /\ responses' = Num(answers)
          /\ storage' = settle(storage, answers, clock).storage
          /\ loadState' = settle(storage, answers, clock).state
          /\ loadResult' = settle(storage, answers, clock).result
    /\ UNCHANGED <<clock, fetched, untouched, analysisVars, pageVars, uiVars>>

ClearCache ==
    /\ storage' = Null
    /\ untouched' = Null
    /\ UNCHANGED <<clock, loadState, loadResult, fetched, responses, analysisVars,
                   pageVars, uiVars>>

\* time passes
Tick ==
    /\ \E t \in Instants : t > clock /\ clock' = t
    /\ UNCHANGED <<storage, loadState, loadResult, fetched, responses,
                   untouched, analysisVars, pageVars, uiVars>>

\* what may be in storage when the page opens
StoredAtStart ==
    {Null, Unparsable}
    \cup {stringify([FreshData(k, 0) EXCEPT !.timestamp = ts]) :
             k \in BOOLEAN, ts \in {Null} \cup {Num(t) : t \in Instants}}

LoaderInit ==
    /\ NetIdle
    /\ CorrIdle
    /\ DataIdle
    /\ PageIdle
    /\ UiIdle
    /\ storage \in StoredAtStart
    /\ clock \in Instants
    /\ loadState = "idle"
    /\ loadResult = Null
    /\ fetched = FALSE
    /\ responses = Null
    /\ untouched = storage

LoaderNext == LoadAll \/ FetchSettle \/ ClearCache \/ Tick

SpecLoader == LoaderInit /\ [][LoaderNext]_vars

\* a stored entry whose age at a time is strictly less than the TTL
FreshEntry(stored, dateNow) ==
    /\ stored # Null
    /\ stored.text = "json"
    /\ stored.value.timestamp # Null
    /\ dateNow - stored.value.timestamp[1] < 3600000

(***************************************************************************)
(* C12: loadAll returns the stored cache payload without a network fetch   *)
(* if and only if a stored entry exists whose age (now minus its           *)
(* timestamp) is strictly less than 3,600,000 ms; in every other case it   *)
(* fetches fresh data, so a payload aged the TTL or more is never          *)
(* returned.                                                               *)
(***************************************************************************)
C12_CacheServedIffFresh ==
    [][LoadAll =>
          /\ FreshEntry(storage, clock) <=>
                (/\ loadState' = "returned"
                 /\ fetched' = FALSE
                 /\ storage # Null
                 /\ storage.text = "json"
                 /\ loadResult' = Num(storage.value))
          /\ ~FreshEntry(storage, clock) <=>
                (loadState' = "fetching" /\ fetched' = TRUE)]_vars

\* the cache was served one millisecond before its entry expired, and
\* nothing was fetched
C12_Witness ==
    /\ loadState = "returned"
    /\ fetched = FALSE
    /\ loadResult # Null
    /\ loadResult[1].timestamp # Null
    /\ clock - loadResult[1].timestamp[1] = CACHE_DURATION - 1
    /\ storage = stringify(loadResult[1])

Settled == loadState \in {"returned", "thrown"} /\ fetched /\ responses # Null

NormalizationTable ==
    {<<"Brighton and Hove Albion", "Brighton">>,
     <<"Manchester City", "Man City">>,
     <<"Manchester United", "Man United">>,
     <<"Newcastle United", "Newcastle">>,
     <<"Nottingham Forest", "Nott'm Forest">>,
     <<"Tottenham Hotspur", "Tottenham">>,
     <<"West Ham United", "West Ham">>,
     <<"Wolverhampton Wanderers", "Wolves">>,
     <<"Leeds United", "Leeds">>}

\* the names of the table, in either spelling
TableNames == {row[1] : row \in NormalizationTable} \cup {row[2] : row \in NormalizationTable}

\* the table's normalized name of a name of the table
Normalized(name) ==
    (CHOOSE row \in NormalizationTable : name \in {row[1], row[2]})[2]

\* names the table does not list
OtherNames == {"Arsenal", "Chelsea", "Liverpool", "Sunderland", "Spurs"}

TeamNames == TableNames \cup OtherNames

\* the object literal of formatTeamName
normalized ==
    [name \in {"Man City", "Man United", "Spurs"} |->
        CASE name = "Man City" -> "Manchester City"
          [] name = "Man United" -> "Manchester United"
          [] name = "Spurs" -> "Tottenham"]

\* normalized[teamName] || teamName
formatTeamName(teamName) ==
    IF teamName \in DOMAIN normalized THEN normalized[teamName] ELSE teamName

\* two names are formatted for display, one after the other
FormatTeamNames ==
    \E first \in TeamNames, second \in TeamNames :
        /\ call' = [op |-> "formatTeamName", first |-> first, second |-> second]
        /\ returned' = <<formatTeamName(first), formatTeamName(second)>>
        /\ UNCHANGED <<netVars, corrVars, dataVars, appVars>>

NamesInit == NetIdle /\ CorrIdle /\ DataIdle /\ AppIdle

NamesNext == FormatTeamNames

SpecNames == NamesInit /\ [][NamesNext]_vars

(***************************************************************************)
(* C14: formatTeamName is a canonical name mapping: for every club of the  *)
(* normalization table the API spelling and the normalized spelling map to *)
(* one and the same string, that string is the table's normalized name,    *)
(* and every name outside the table passes through unchanged.              *)
(***************************************************************************)
C14_FormatTeamNameCanonical ==
    call.op = "formatTeamName" =>
        /\ \A row \in NormalizationTable :
              (call.first = row[1] /\ call.second = row[2]) =>
                  /\ returned[1] = returned[2]
                  /\ returned[1] = row[2]
        /\ call.first \in TableNames => returned[1] = Normalized(call.first)
        /\ call.first \notin TableNames => returned[1] = call.first


(***************************************************************************)
(* Router (docs/js/router.js) and the handlers Dashboard.init gives it     *)
(* (docs/js/app.js).  A text is a sequence of characters.  A hash is the   *)
(* text after '#', kept as a path and, after '/team/', the rest.           *)
(***************************************************************************)

MaxNameLen == 1
MaxTypedLen == 1
MaxEvents == 2

Texts(chars, longest) == UNION {[1..n -> chars] : n \in 0..longest}

\* the team names of team-performance-history.json
KnownTeams == {<<"M">>, <<"M", " ">>}

\* the characters of team names
NameChars == {"M", " ", "%"}

Names == KnownTeams \cup (Texts(NameChars, MaxNameLen) \ {<<>>})

HexDigits == {"0", "2", "5"}

\* the character a two-digit escape stands for
Unescape(high, low) ==
    CASE high = "2" /\ low = "0" -> " "
      [] high = "2" /\ low = "5" -> "%"
      [] high = "2" /\ low = "2" -> "\""
      [] high = "5" /\ low = "0" -> "P"
      [] high = "5" /\ low = "2" -> "R"
      [] high = "5" /\ low = "5" -> "U"
      [] high = "0" /\ low = "0" -> "NUL"
      [] high = "0" /\ low = "2" -> "STX"
      [] high = "0" /\ low = "5" -> "ENQ"

\* the escape of a character outside the unreserved set
Escape(char) ==
    CASE char = " " -> <<"%", "2", "0">>
      [] char = "%" -> <<"%", "2", "5">>
      [] char = "\"" -> <<"%", "2", "2">>
      [] char = "NUL" -> <<"%", "0", "0">>
      [] char = "STX" -> <<"%", "0", "2">>
      [] char = "ENQ" -> <<"%", "0", "5">>
      [] OTHER -> <<char>>

\* the text is put into the hash as it is
encodeURIComponent_raw(text) == text

RECURSIVE encodeURIComponent(_)
encodeURIComponent(text) ==
    IF text = <<>> THEN <<>>
    ELSE Escape(Head(text)) \o encodeURIComponent(Tail(text))

URIError == [thrown |-> TRUE, value |-> <<>>]

\* decodeURIComponent: a '%' not followed by two hex digits throws URIError
RECURSIVE decodeURIComponent(_)
decodeURIComponent(text) ==
    IF text = <<>> THEN [thrown |-> FALSE, value |-> <<>>]
    ELSE IF Head(text) # "%"
    THEN LET rest == decodeURIComponent(Tail(text))
         IN IF rest.thrown THEN URIError
            ELSE [thrown |-> FALSE, value |-> <<Head(text)>> \o rest.value]
    ELSE IF Len(text) < 3 \/ text[2] \notin HexDigits \/ text[3] \notin HexDigits
    THEN URIError
    ELSE LET rest == decodeURIComponent(SubSeq(text, 4, Len(text)))
         IN IF rest.thrown THEN URIError
            ELSE [thrown |-> FALSE,
                  value |-> <<Unescape(text[2], text[3])>> \o rest.value]

\* `/team/${encodeURIComponent(teamName)}`
TeamHash(teamName) == [path |-> "/team/", rest |-> encodeURIComponent(teamName)]

Path(path) == [path |-> path, rest |-> <<>>]

\* what follows '/team/' in a hash somebody typed
TypedRests == Texts({"M", "%", "2"}, MaxTypedLen)

Hashes ==
    {Path(path) : path \in {"", "/", "/tables", "/team", "/about"}}
        \cup {[path |-> "/team/", rest |-> rest] : rest \in TypedRests}
        \cup {TeamHash(teamName) : teamName \in Names}

startsWithTeam(h) == h.path = "/team/"

\* the branch handleRoute takes on window.location.hash.slice(1)
Route(h) ==
    IF h = Path("") \/ h = Path("/")
    THEN [show |-> "showDashboard", teamName |-> <<>>]
    ELSE IF h = Path("/tables")
    THEN [show |-> "showTables", teamName |-> <<>>]
    ELSE IF startsWithTeam(h)
    THEN LET decoded == decodeURIComponent(h.rest)
         IN IF decoded.thrown
            THEN [show |-> "URIError", teamName |-> <<>>]
            ELSE [show |-> "showTeamDetail", teamName |-> decoded.value]
    ELSE [show |-> "showDashboard", teamName |-> <<>>]

\* Router.getCurrentTeam
getCurrentTeam(h) ==
    IF startsWithTeam(h)
    THEN LET decoded == decodeURIComponent(h.rest)
         IN IF decoded.thrown THEN [thrown |-> TRUE, value |-> Null]
            ELSE [thrown |-> FALSE, value |-> Num(decoded.value)]
    ELSE [thrown |-> FALSE, value |-> Null]

\* Router.getCurrentView
getCurrentView == currentView

Containers == {"dashboard-view", "team-detail-view", "tables-view"}

\* the view each show method names and the container it displays
ViewOf(show) ==
    CASE show = "showDashboard" -> "dashboard"
      [] show = "showTeamDetail" -> "team-detail"
      [] show = "showTables" -> "tables"

ContainerOf(view) ==
    CASE view = "dashboard" -> "dashboard-view"
      [] view = "team-detail" -> "team-detail-view"
      [] view = "tables" -> "tables-view"

HandlerOf(show) ==
    CASE show = "showDashboard" -> "onDashboard"
      [] show = "showTeamDetail" -> "onTeamDetail"
      [] show = "showTables" -> "onTables"

\* the three style.display assignments of a show method
Displays(show) ==
    [container \in Containers |->
        IF container = ContainerOf(ViewOf(show)) THEN "block" ELSE "none"]

\* the sidebar is shown with the tables too
SidebarDisplay_shown(show) == ""

\* sidebar.style.display of a show method
SidebarDisplay(show) == IF show = "showTables" THEN "none" ELSE ""

\* DataLoader.getTeamData(data, teamName) finds a team
getTeamData(data, teamName) == teamName \in KnownTeams

NothingRendered == [view |-> "none", team |-> <<>>, data |-> Null]

NothingDispatched == [show |-> "none", thrown |-> FALSE, calls |-> <<>>]

\* the handlers of Dashboard.init
AppHandlers == {"onDashboard", "onTeamDetail"}

\* the page as the router and its handlers see it
Page ==
    [hash |-> hash, currentView |-> currentView, display |-> display,
     sidebar |-> sidebar, events |-> events, dispatched |-> dispatched,
     rendered |-> rendered, overlay |-> overlay]

\* Router.navigate: the browser queues a hashchange when the hash changes
navigate(page, path) ==
    [page EXCEPT !.hash = path,
                 !.events = IF path = page.hash THEN @ ELSE @ + 1]

navigateToTeam(page, teamName) == navigate(page, TeamHash(teamName))

navigateToDashboard(page) == navigate(page, Path(""))

navigateToTables(page) == navigate(page, Path("/tables"))

\* Dashboard.showError writes the message into the overlay
showError(page) == [page EXCEPT !.overlay.error = TRUE]

\* Dashboard.hideLoading
hideLoading(page) == [page EXCEPT !.overlay.hidden = TRUE]

\* Dashboard.renderDashboard builds the chart from this.data
renderDashboard(page, data) ==
    [page EXCEPT !.rendered = [view |-> "dashboard", team |-> <<>>, data |-> data]]

\* the team that is not found is rendered as it is named
renderTeamDetail_unchecked(page, data, teamName) ==
    [page EXCEPT !.rendered = [view |-> "team-detail", team |-> teamName, data |-> data]]

\* Dashboard.renderTeamDetail
renderTeamDetail(page, data, teamName) ==
    IF ~getTeamData(data, teamName)
    THEN navigateToDashboard(showError(page))
    ELSE [page EXCEPT !.rendered = [view |-> "team-detail", team |-> teamName, data |-> data]]

\* what a show method does before it calls its handler
Shown(page, show) ==
    [page EXCEPT !.currentView = ViewOf(show),
                 !.display = Displays(show),
                 !.sidebar = SidebarDisplay(show)]

Called(page, handler, teamName) ==
    [page EXCEPT !.dispatched.calls = Append(@, [handler |-> handler, teamName |-> teamName])]

showDashboard(page, defined, data) ==
    IF "onDashboard" \in defined
    THEN renderDashboard(Called(Shown(page, "showDashboard"), "onDashboard", <<>>), data)
    ELSE Shown(page, "showDashboard")

showTeamDetail(page, defined, data, teamName) ==
    IF "onTeamDetail" \in defined
    THEN renderTeamDetail(Called(Shown(page, "showTeamDetail"), "onTeamDetail", teamName),
                          data, teamName)
    ELSE Shown(page, "showTeamDetail")

\* no handler of the application renders the tables
showTables(page, defined, data) ==
    IF "onTables" \in defined
    THEN Called(Shown(page, "showTables"), "onTables", <<>>)
    ELSE Shown(page, "showTables")

\* Router.handleRoute with the handlers defined; a URIError leaves the views alone
handleRoute(page, defined, data) ==
    LET route == Route(page.hash)
        start == [page EXCEPT !.dispatched =
                     [show |-> route.show, thrown |-> route.show = "URIError", calls |-> <<>>]]
    IN CASE route.show = "showDashboard" -> showDashboard(start, defined, data)
         [] route.show = "showTables" -> showTables(start, defined, data)
         [] route.show = "showTeamDetail" ->
                showTeamDetail(start, defined, data, route.teamName)
         [] route.show = "URIError" -> start

Becomes(page) ==
    /\ hash' = page.hash
    /\ currentView' = page.currentView
    /\ display' = page.display
    /\ sidebar' = page.sidebar
    /\ events' = page.events
    /\ dispatched' = page.dispatched
    /\ rendered' = page.rendered
    /\ overlay' = page.overlay

\* somebody edits the address, follows a link or goes back in the history
UserNavigate ==
    /\ events < MaxEvents
    /\ \E h \in Hashes \ {hash} : Becomes(navigate(Page, h))
    /\ UNCHANGED <<handlers, listening, initState, appData, loaderVars, analysisVars, uiVars>>

\* a click on a team of a rendered view
ClickTeam ==
    /\ events < MaxEvents
    /\ rendered.view # "none"
    /\ \E teamName \in Names : Becomes(navigateToTeam(Page, teamName))
    /\ UNCHANGED <<handlers, listening, initState, appData, loaderVars, analysisVars, uiVars>>

\* a click on a back link, bound at the end of Router.init
ClickBack ==
    /\ events < MaxEvents
    /\ initState = "ready"
    /\ Becomes(navigate(Page, Path("")))
    /\ UNCHANGED <<handlers, listening, initState, appData, loaderVars, analysisVars, uiVars>>

\* the browser dispatches a queued hashchange: the listener of Router.init
\* runs handleRoute, and without a listener nothing runs
HashChange ==
    /\ events > 0
    /\ \E page \in {[Page EXCEPT !.events = @ - 1]} :
          IF listening
          THEN \E routed \in {handleRoute(page, handlers, appData)} : Becomes(routed)
          ELSE Becomes(page)
    /\ UNCHANGED <<handlers, listening, initState, appData, loaderVars, analysisVars, uiVars>>

\* Dashboard.init up to its await: DataLoader.loadAll is called once
DashboardInit ==
    /\ initState = "pending"
    /\ loadState = "idle"
    /\ LoadAll

\* the branch Dashboard.init takes when loadAll has ended
afterLoad_always(state) == "try"

afterLoad(state) == IF state = "returned" THEN "try" ELSE "catch"

\* Dashboard.init after its await
DashboardInitResume ==
    /\ initState = "pending"
    /\ loadState \in {"returned", "thrown"}
    /\ IF afterLoad(loadState) = "try"
       THEN \E data \in {IF loadState = "returned" THEN loadResult ELSE Null} :
            \E routed \in {handleRoute(Page, AppHandlers, data)} :
               /\ appData' = data
               /\ handlers' = AppHandlers
               /\ listening' = TRUE
               /\ IF routed.dispatched.thrown
                  THEN /\ Becomes(showError(routed))
                       /\ initState' = "failed"
                  ELSE /\ Becomes(hideLoading(routed))
                       /\ initState' = "ready"
       ELSE /\ Becomes(showError(Page))
            /\ initState' = "failed"
            /\ UNCHANGED <<appData, handlers, listening>>
    /\ UNCHANGED <<loaderVars, analysisVars, uiVars>>

\* the page is opened at any address: a first visit, or a later one with the
\* cache of an earlier visit still fresh or expired
AppInit ==
    /\ NetIdle
    /\ CorrIdle
    /\ DataIdle
    /\ storage \in {Null, stringify(FreshData(TRUE, 0))}
    /\ clock \in {0, CACHE_DURATION}
    /\ loadState = "idle"
    /\ loadResult = Null
    /\ fetched = FALSE
    /\ responses = Null
    /\ untouched = storage
    /\ hash \in Hashes
    /\ currentView = "dashboard"
    /\ display = [container \in Containers |-> ""]
    /\ sidebar = ""
    /\ handlers = {}
    /\ listening = FALSE
    /\ events = 0
    /\ dispatched = NothingDispatched
    /\ initState = "pending"
    /\ appData = Null
    /\ overlay = [hidden |-> FALSE, error |-> FALSE]
    /\ rendered = NothingRendered
    /\ UiIdle

AppNext ==
    \/ DashboardInit
    \/ FetchSettle
    \/ DashboardInitResume
    \/ UserNavigate
    \/ ClickTeam
    \/ ClickBack
    \/ HashChange

SpecApp == AppInit /\ [][AppNext]_vars


\* a step in which Router.handleRoute runs: for a hashchange, or from Router.init
Dispatching ==
    \/ HashChange /\ listening
    \/ DashboardInitResume /\ afterLoad(loadState) = "try"

\* the view the routing table names for a hash
ViewFor(h) ==
    IF h = Path("") \/ h = Path("/") THEN "dashboard"
    ELSE IF h = Path("/tables") THEN "tables"
    ELSE IF h.path = "/team/" THEN "team-detail"
    ELSE "dashboard"

HandlerFor(view) ==
    CASE view = "dashboard" -> "onDashboard"
      [] view = "tables" -> "onTables"
      [] view = "team-detail" -> "onTeamDetail"

\* C15: every run of Router.handleRoute shows exactly the one view its hash
\* names (dashboard for '' and '/', tables for '/tables', team detail for
\* '/team/...', dashboard for every other hash), and calls the handler of
\* that view exactly once when it is defined, onTeamDetail with the decoded
\* rest of the hash, and no other handler.
C15_EveryHashDispatchedToOneView ==
    [][Dispatching =>
          LET view == ViewFor(hash)
          IN /\ currentView' = view
             /\ \A container \in Containers :
                   display'[container] = "block" <=> container = ContainerOf(view)
             /\ IF HandlerFor(view) \notin handlers'
                THEN dispatched'.calls = <<>>
                ELSE /\ Len(dispatched'.calls) = 1
                     /\ dispatched'.calls[1].handler = HandlerFor(view)
                     /\ view = "team-detail" =>
                           /\ ~decodeURIComponent(hash.rest).thrown
                           /\ dispatched'.calls[1].teamName
                                  = decodeURIComponent(hash.rest).value]_vars


\* only the show methods assign the containers' display, so some handleRoute
\* has completed exactly when a container has left its initial display
RouteCompleted == \E container \in Containers : display[container] # ""

Displayed == {container \in Containers : display[container] = "block"}

\* C16: once a handleRoute has completed, and after every later one, exactly
\* one of the three containers is displayed, Router.currentView names it, the
\* other two are hidden, and the upcoming sidebar is hidden if and only if the
\* tables view is the one displayed.
C16_OneViewDisplayed ==
    RouteCompleted =>
        /\ Displayed = {ContainerOf(currentView)}
        /\ \A container \in Containers \ Displayed : display[container] = "none"
        /\ sidebar = "none" <=> "tables-view" \in Displayed

\* the tables are shown after a team was: the sidebar went from shown to hidden
C16_Witness ==
    /\ Displayed = {"tables-view"}
    /\ currentView = "tables"
    /\ sidebar = "none"
    /\ rendered.view = "team-detail"
    /\ dispatched.show = "showTables"


\* a return visit within the hour: loadAll is served from the cache
RevisitInit ==
    /\ AppInit
    /\ storage = stringify(FreshData(TRUE, 0))
    /\ clock = 0

RevisitNext ==
    \/ DashboardInit
    \/ DashboardInitResume
    \/ UserNavigate
    \/ ClickTeam
    \/ ClickBack
    \/ HashChange

\* the browser's event loop runs the continuation of init's await and
\* dispatches every queued hashchange
SpecAppFair ==
    /\ RevisitInit
    /\ [][RevisitNext]_vars
    /\ WF_vars(DashboardInit)
    /\ WF_vars(DashboardInitResume)
    /\ WF_vars(HashChange)

\* a step that only sets the hash
Navigating == UserNavigate \/ ClickTeam \/ ClickBack

\* handleRoute has run for the hash navigateToTeam(teamName) set
Processed(teamName) ==
    /\ currentView = "team-detail"
    /\ dispatched.calls = <<[handler |-> "onTeamDetail", teamName |-> teamName]>>

\* the router listens and the hash is the one navigateToTeam sets for a name
\* that handleRoute has not been run for
Unprocessed ==
    /\ listening
    /\ \E teamName \in Names : hash = TeamHash(teamName) /\ ~Processed(teamName)

\* C17 as stated: for every team name n, when the hashchange of
\* navigateToTeam(n) is processed, getCurrentView() is 'team-detail',
\* onTeamDetail was called with exactly n and getCurrentTeam() equals n.
C17_NavigateToTeamShowsTeam ==
    [][\A teamName \in Names :
          HashChange /\ listening /\ hash = TeamHash(teamName) =>
              /\ currentView' = "team-detail"
              /\ dispatched'.calls = <<[handler |-> "onTeamDetail", teamName |-> teamName]>>
              /\ getCurrentTeam(hash') = [thrown |-> FALSE, value |-> Num(teamName)]]_vars

\* C17, amended: for every team name n, navigateToTeam(n) puts the encoded
\* name into the hash and leaves getCurrentView() as it was; the hashchange
\* is eventually processed unless the hash is changed again first; when it
\* is processed getCurrentView() is 'team-detail' and onTeamDetail was called
\* with exactly n; getCurrentTeam() equals n when n is a team of the loaded
\* data, and is null when it is not, because renderTeamDetail has by then
\* navigated to the dashboard.
C17_NavigateToTeamCallsHandler ==
    /\ [][Navigating => currentView' = currentView /\ dispatched' = dispatched]_vars
    /\ [][\A teamName \in Names :
            /\ ClickTeam /\ hash' = TeamHash(teamName) =>
                  getCurrentTeam(hash') = [thrown |-> FALSE, value |-> Num(teamName)]
            /\ HashChange /\ listening /\ hash = TeamHash(teamName) =>
                  /\ Processed(teamName)'
                  /\ getCurrentTeam(hash') =
                        [thrown |-> FALSE,
                         value |-> IF getTeamData(appData, teamName)
                                   THEN Num(teamName) ELSE Null]]_vars
    /\ Unprocessed ~> ~Unprocessed

\* a team whose name needs escaping is shown after a click on it
C17_Witness ==
    /\ hash = [path |-> "/team/", rest |-> <<"M", "%", "2", "0">>]
    /\ events = 0
    /\ Processed(<<"M", " ">>)
    /\ rendered = [view |-> "team-detail", team |-> <<"M", " ">>, data |-> appData]
    /\ getCurrentTeam(hash).value = Num(<<"M", " ">>)


\* the last handleRoute called onTeamDetail for a name that is not in the data
UnknownTeamRouted ==
    /\ dispatched.show = "showTeamDetail"
    /\ Len(dispatched.calls) = 1
    /\ ~getTeamData(appData, dispatched.calls[1].teamName)

\* C18: a handleRoute for '/team/<name>' with a name that is not in the loaded
\* data renders no team: renderTeamDetail reports the error and sets the hash
\* to '', which queues a hashchange; no team that is not in the data is ever
\* rendered; and from the team-detail view so entered the application comes
\* to currentView = 'dashboard' with the dashboard rendered, unless somebody
\* navigates elsewhere first.
C18_UnknownTeamReturnsToDashboard ==
    /\ [][Dispatching /\ UnknownTeamRouted' =>
             /\ overlay'.error
             /\ hash' = Path("")
             /\ events' > 0
             /\ rendered' = rendered]_vars
    /\ [](rendered.view = "team-detail" => getTeamData(appData, rendered.team))
    /\ (currentView = "team-detail" /\ UnknownTeamRouted /\ hash = Path(""))
          ~> \/ currentView = "dashboard" /\ rendered.view = "dashboard"
             \/ hash # Path("")

\* the dashboard is back, rendered, after the redirect of an unknown team
C18_Witness ==
    /\ initState = "ready"
    /\ overlay.error
    /\ currentView = "dashboard"
    /\ rendered.view = "dashboard"
    /\ dispatched.show = "showDashboard"
    /\ hash = Path("")
    /\ events = 0


\* a route handler has run: something was rendered or a handler was called
HandlerRan == rendered.view # "none" \/ dispatched.calls # <<>>

\* C19: whatever hash changes occur while loading, a view is rendered and a
\* route handler runs only after DataLoader.loadAll has resolved and this.data
\* is set, and the data rendered is this.data; and if loadAll fails, the
\* router is never initialised, no handleRoute and no handler ever runs, the
\* loading overlay is never hidden, and once init has ended the error message
\* is in the overlay.
C19_NoViewBeforeData ==
    /\ HandlerRan \/ listening \/ dispatched.show # "none" =>
          /\ loadState = "returned"
          /\ appData # Null
          /\ appData = loadResult
    /\ rendered.view # "none" => rendered.data = appData
    /\ loadState = "thrown" =>
          /\ ~listening
          /\ handlers = {}
          /\ dispatched = NothingDispatched
          /\ rendered = NothingRendered
          /\ ~overlay.hidden
          /\ initState # "ready"
          /\ initState = "failed" => overlay.error
    /\ initState = "pending" => ~listening /\ ~HandlerRan /\ ~overlay.hidden

\* loadAll failed after the address was changed during loading: the
\* hashchange was dropped, the error is shown and nothing is rendered
C19_Witness ==
    /\ loadState = "thrown"
    /\ initState = "failed"
    /\ overlay = [hidden |-> FALSE, error |-> TRUE]
    /\ hash = Path("/tables")
    /\ events = 0
    /\ currentView = "dashboard"
    /\ rendered = NothingRendered


(***************************************************************************)
(* localStorage as DataLoader.setCache and ThemeManager share it           *)
(* (docs/js/data-loader.js, docs/js/utils/theme-manager.js)                *)
(***************************************************************************)
CACHE_KEY == "pl-odds-cache"

STORAGE_KEY == "pl-odds-theme"

\* the keys of localStorage: the two of the application and one of another
\* script of the same origin
Keys == {CACHE_KEY, STORAGE_KEY, "other"}

\* localStorage.clear()
clear(store) == [key \in Keys |-> ""]

\* how a localStorage.setItem of the payload ends
SetItemOutcomes == {"stored", "QuotaExceededError", "SecurityError"}

Payloads == {"payload-1", "payload-2"}

\* DataLoader.setCache on the whole of localStorage: first is how its
\* setItem ends, retry how the one after localStorage.clear() ends
setCacheItems(store, data, first, retry) ==
    IF first = "stored"
    THEN [thrown |-> FALSE, items |-> [store EXCEPT ![CACHE_KEY] = data]]
    ELSE IF first = "QuotaExceededError"
    THEN [thrown |-> FALSE,
          items |-> IF retry = "stored"
                    THEN [clear(store) EXCEPT ![CACHE_KEY] = data]
                    ELSE clear(store)]
    ELSE [thrown |-> FALSE, items |-> store]

\* ThemeManager.setTheme: the attribute is set and the theme is saved
setTheme(store, theme) ==
    [dataTheme |-> theme, items |-> [store EXCEPT ![STORAGE_KEY] = theme]]

ThemeOf(dark) == IF dark THEN "dark" ELSE "light"

\* ThemeManager.init: the saved theme, or else the system's, is applied, the
\* toggle button bound and the listener for system changes added
ThemeManagerInit ==
    /\ ~themeReady
    /\ LET savedTheme == items[STORAGE_KEY]
           theme == IF savedTheme # "" THEN savedTheme ELSE ThemeOf(systemDark)
       IN /\ dataTheme' = setTheme(items, theme).dataTheme
          /\ items' = setTheme(items, theme).items
    /\ themeReady' = TRUE
    /\ call' = [op |-> "ThemeManager.init"]
    /\ returned' = Null
    /\ UNCHANGED <<systemDark, toggled>>
    /\ UNCHANGED <<netVars, corrVars, dataVars, loaderVars, pageVars, widgetVars>>

\* a click on the toggle button: ThemeManager.toggle
Toggle ==
    /\ themeReady
    /\ LET newTheme == IF dataTheme = "dark" THEN "light" ELSE "dark"
       IN /\ dataTheme' = setTheme(items, newTheme).dataTheme
          /\ items' = setTheme(items, newTheme).items
    /\ toggled' = TRUE
    /\ call' = [op |-> "ThemeManager.toggle"]
    /\ returned' = Null
    /\ UNCHANGED <<systemDark, themeReady>>
    /\ UNCHANGED <<netVars, corrVars, dataVars, loaderVars, pageVars, widgetVars>>

\* the system colour scheme changes: the 'change' listener of init runs
SystemChange ==
    /\ systemDark' = ~systemDark
    /\ IF themeReady /\ items[STORAGE_KEY] = ""
       THEN /\ dataTheme' = setTheme(items, ThemeOf(systemDark')).dataTheme
            /\ items' = setTheme(items, ThemeOf(systemDark')).items
       ELSE UNCHANGED <<dataTheme, items>>
    /\ call' = [op |-> "change"]
    /\ returned' = Null
    /\ UNCHANGED <<themeReady, toggled>>
    /\ UNCHANGED <<netVars, corrVars, dataVars, loaderVars, pageVars, widgetVars>>

\* DataLoader.setCache is called, as loadAll does after its fetches
SetCache ==
    /\ \E data \in Payloads, first \in SetItemOutcomes, retry \in SetItemOutcomes :
          /\ items' = setCacheItems(items, data, first, retry).items
          /\ call' = [op |-> "setCache", data |-> data, first |-> first, retry |-> retry]
          /\ returned' = Num(setCacheItems(items, data, first, retry).thrown)
    /\ UNCHANGED <<dataTheme, systemDark, themeReady, toggled>>
    /\ UNCHANGED <<netVars, corrVars, dataVars, loaderVars, pageVars, widgetVars>>

\* another script of the origin stores or removes its own item
OtherScript ==
    /\ items' = [items EXCEPT !["other"] = IF @ = "" THEN "x" ELSE ""]
    /\ call' = [op |-> "other"]
    /\ returned' = Null
    /\ UNCHANGED <<dataTheme, systemDark, themeReady, toggled>>
    /\ UNCHANGED <<netVars, corrVars, dataVars, loaderVars, pageVars, widgetVars>>

\* the page is loaded again: the document starts over, localStorage stays
Reload ==
    /\ themeReady
    /\ themeReady' = FALSE
    /\ dataTheme' = ""
    /\ call' = [op |-> "reload"]
    /\ returned' = Null
    /\ UNCHANGED <<items, systemDark, toggled>>
    /\ UNCHANGED <<netVars, corrVars, dataVars, loaderVars, pageVars, widgetVars>>

\* a first visit: nothing of the application is stored yet
ThemeInit ==
    /\ NetIdle
    /\ CorrIdle
    /\ DataIdle
    /\ LoaderIdle
    /\ PageIdle
    /\ WidgetIdle
    /\ items \in {store \in [Keys -> {"", "x"}] :
                     store[CACHE_KEY] = "" /\ store[STORAGE_KEY] = ""}
    /\ dataTheme = ""
    /\ systemDark \in BOOLEAN
    /\ themeReady = FALSE
    /\ toggled = FALSE

ThemeNext ==
    \/ ThemeManagerInit
    \/ Toggle
    \/ SystemChange
    \/ SetCache
    \/ OtherScript
    \/ Reload

SpecTheme == ThemeInit /\ [][ThemeNext]_vars

\* C21: DataLoader.setCache never throws to its caller and changes no item
\* of localStorage other than 'pl-odds-cache': 'pl-odds-theme' and every
\* other key hold after the call what they held before it, also when
\* setItem fails with a quota error.
C21_SetCacheTouchesOnlyCacheKey ==
    [][SetCache =>
          /\ returned' = Num(FALSE)
          /\ \A key \in Keys \ {CACHE_KEY} : items'[key] = items[key]]_vars

\* C22: after ThemeManager.init, a change of the system colour scheme
\* switches the page theme to the system's while the toggle was never
\* clicked, and leaves the theme alone once it was.
C22_ThemeFollowsSystemUntilToggled ==
    [][SystemChange /\ themeReady =>
          IF toggled THEN dataTheme' = dataTheme
          ELSE dataTheme' = ThemeOf(systemDark')]_vars


(***************************************************************************)
(* PerformanceChart and the window it listens to                           *)
(* (docs/js/components/performance-chart.js, Dashboard.renderDashboard)    *)
(***************************************************************************)
\* delay of the resize timer, ms
ResizeDelay == 250

\* change of the container width, px, below which a resize redraws nothing
ResizeThreshold == 10

\* renders of a view per visit
MaxRenders == 2

\* calls of init per chart instance
MaxInits == 3

\* container widths: 300 and 310 differ by the threshold, 300 and 311 by more
Widths == {300, 310, 311}

\* amounts of time that pass in one step, ms
Steps == {125, 250}

\* from here on the time since the last resize event is not told apart
MaxIdle == 2 * ResizeDelay

\* a PerformanceChart as its constructor leaves it before it calls init:
\* tooltips counts the tooltip elements of this instance attached to the
\* body, resize and themechange its listeners registered on the window,
\* registered tells whether boundHandleResize / boundUpdateColors are among
\* them, timer is the time left on resizeTimer; inits and cleared record
\* the calls of init and whether destroy cancelled a pending timer
NewChart ==
    [destroyed |-> FALSE, tooltips |-> 0, tooltipAttached |-> FALSE,
     resize |-> 0, themechange |-> 0, registered |-> FALSE,
     timer |-> Null, lastContainerWidth |-> 0, inits |-> 0, cleared |-> FALSE]

\* PerformanceChart.createTooltip: one more div.tooltip on the body
createTooltip(chart) ==
    [chart EXCEPT !.tooltips = @ + 1, !.tooltipAttached = TRUE]

\* init as first written: listeners added as new closures, none removed
init_anonymous(chart, width) ==
    [createTooltip(chart) EXCEPT
        !.lastContainerWidth = width,
        !.resize = @ + 1,
        !.themechange = @ + 1,
        !.registered = FALSE,
        !.inits = @ + 1]

\* PerformanceChart.init: the container is redrawn at its width, a tooltip
\* is created, the bound listeners are removed and new ones added
init(chart, width) ==
    [createTooltip(chart) EXCEPT
        !.lastContainerWidth = width,
        !.resize = (IF chart.registered THEN @ - 1 ELSE @) + 1,
        !.themechange = (IF chart.registered THEN @ - 1 ELSE @) + 1,
        !.registered = TRUE,
        !.inits = @ + 1]

\* new PerformanceChart(...)
PerformanceChart(width) == init(NewChart, width)

\* handleResize without its timer: the resize is answered at once
handleResize_undebounced(chart, width) ==
    IF Abs(width - chart.lastContainerWidth) > ResizeThreshold
    THEN init(chart, width)
    ELSE chart

\* PerformanceChart.handleResize: the timer is cleared and set again
handleResize(chart, width) == [chart EXCEPT !.timer = Num(ResizeDelay)]

\* the callback of the resize timer
resizeTimeout(chart, width) ==
    IF Abs(width - chart.lastContainerWidth) > ResizeThreshold
    THEN init([chart EXCEPT !.timer = Null], width)
    ELSE [chart EXCEPT !.timer = Null]

\* PerformanceChart.update, and updateSort, updateFilter, updateLocation,
\* updateBookmaker: the options are set and init is called
update(chart, width) == init(chart, width)

RECURSIVE updates(_, _, _)
\* the calls of update that the listeners of one change event make
updates(chart, width, listeners) ==
    IF listeners = 0 THEN chart
    ELSE updates(update(chart, width), width, listeners - 1)

\* PerformanceChart.destroy
destroy(chart) ==
    [chart EXCEPT
        !.tooltips = IF chart.tooltipAttached THEN @ - 1 ELSE @,
        !.tooltipAttached = FALSE,
        !.resize = IF chart.registered THEN @ - 1 ELSE @,
        !.themechange = IF chart.registered THEN @ - 1 ELSE @,
        !.registered = FALSE,
        !.timer = Null,
        !.cleared = chart.timer # Null,
        !.destroyed = TRUE]

\* Dashboard.renderDashboard: the previous chart is destroyed, a new one
\* constructed and a change listener added to each control
RenderDashboard ==
    /\ Len(charts) < MaxRenders
    /\ charts' = Append([i \in DOMAIN charts |->
                            IF i = Len(charts) THEN destroy(charts[i]) ELSE charts[i]],
                        PerformanceChart(containerWidth))
    /\ controlListeners' = controlListeners + 1
    /\ UNCHANGED <<lastUpdates, containerWidth, sinceResize, burstInits, pies>>
    /\ UNCHANGED <<analysisVars, loaderVars, pageVars, themeVars>>

\* the user changes the filter, location or bookmaker control: every
\* listener on it calls this.performanceChart.update
ControlChange ==
    /\ charts # <<>>
    /\ charts[Len(charts)].inits + controlListeners <= MaxInits
    /\ charts' = [charts EXCEPT
                     ![Len(charts)] = updates(@, containerWidth, controlListeners)]
    /\ lastUpdates' = controlListeners
    /\ UNCHANGED <<controlListeners, containerWidth, sinceResize, burstInits, pies>>
    /\ UNCHANGED <<analysisVars, loaderVars, pageVars, themeVars>>

\* updateSort, updateFilter, updateLocation or updateBookmaker is called on
\* the dashboard's chart
ChartSetter ==
    /\ charts # <<>>
    /\ charts[Len(charts)].inits < MaxInits
    /\ \E setter \in {"updateSort", "updateFilter", "updateLocation", "updateBookmaker"} :
          charts' = [charts EXCEPT ![Len(charts)] = update(@, containerWidth)]
    /\ UNCHANGED <<controlListeners, lastUpdates, containerWidth, sinceResize, burstInits, pies>>
    /\ UNCHANGED <<analysisVars, loaderVars, pageVars, themeVars>>

(***************************************************************************)
(* PieChart (docs/js/components/pie-chart.js, Dashboard.renderPieCharts)   *)
(***************************************************************************)
\* a PieChart as its constructor leaves it before it calls init; render is
\* the team-detail render that constructed it
NewPie(containerId, render) ==
    [containerId |-> containerId, render |-> render,
     resize |-> 0, themechange |-> 0, registered |-> FALSE,
     timer |-> Null, inits |-> 0]

\* PieChart.init: the container is redrawn from this.data, the bound
\* listeners are removed if there are any and new ones added
PieChart_init(pie) ==
    [pie EXCEPT
        !.resize = (IF pie.registered THEN @ - 1 ELSE @) + 1,
        !.themechange = (IF pie.registered THEN @ - 1 ELSE @) + 1,
        !.registered = TRUE,
        !.inits = @ + 1]

\* new PieChart(containerId, data, type)
PieChart(containerId, render) == PieChart_init(NewPie(containerId, render))

\* PieChart.handleResize
PieChart_handleResize(pie) == [pie EXCEPT !.timer = Num(ResizeDelay)]

\* PieChart.updateColors
PieChart_updateColors(pie) == PieChart_init(pie)

\* Dashboard.renderPieCharts, as renderTeamDetail calls it on every
\* navigation to a team: two pie charts are constructed
RenderPieCharts ==
    /\ Len(pies) < 2 * MaxRenders
    /\ LET render == (Len(pies) \div 2) + 1
       IN pies' = pies \o <<PieChart("results-pie-chart", render),
                            PieChart("covers-pie-chart", render)>>
    /\ UNCHANGED <<charts, controlListeners, lastUpdates, containerWidth,
                   sinceResize, burstInits>>
    /\ UNCHANGED <<analysisVars, loaderVars, pageVars, themeVars>>

\* a 'themechange' event on the window, as ThemeManager.setTheme dispatches
\* it: every listener runs updateColors, which for a PerformanceChart only
\* refills the bars and for a PieChart is init
ThemeChange ==
    /\ pies # <<>>
    /\ \A i \in DOMAIN pies : pies[i].inits < MaxInits
    /\ pies' = [i \in DOMAIN pies |->
                   IF pies[i].themechange > 0
                   THEN PieChart_updateColors(pies[i])
                   ELSE pies[i]]
    /\ UNCHANGED <<charts, controlListeners, lastUpdates, containerWidth,
                   sinceResize, burstInits>>
    /\ UNCHANGED <<analysisVars, loaderVars, pageVars, themeVars>>

(***************************************************************************)
(* The window: resize events and the passing of time                       *)
(***************************************************************************)
\* a 'resize' event on the window: the containers take a width and every
\* resize listener runs its chart's handleResize
WindowResize ==
    /\ \E width \in Widths :
          /\ containerWidth' = width
          /\ charts' = [i \in DOMAIN charts |->
                           IF charts[i].resize > 0
                           THEN handleResize(charts[i], width)
                           ELSE charts[i]]
    /\ \A i \in DOMAIN charts : charts[i].resize > 0 => charts[i].inits < MaxInits
    /\ pies' = [i \in DOMAIN pies |->
                   IF pies[i].resize > 0
                   THEN PieChart_handleResize(pies[i])
                   ELSE pies[i]]
    /\ sinceResize' = 0
    /\ burstInits' = IF sinceResize >= ResizeDelay THEN 0 ELSE burstInits
    /\ UNCHANGED <<controlListeners, lastUpdates>>
    /\ UNCHANGED <<analysisVars, loaderVars, pageVars, themeVars>>

\* the timers of all charts
Timers ==
    {charts[i].timer : i \in DOMAIN charts} \cup {pies[i].timer : i \in DOMAIN pies}

\* a timer after some time has passed
Later(timer, ms) == IF timer = Null THEN Null ELSE Num(timer[1] - ms)

\* time passes, no further than to the next timer that is due
Elapse ==
    /\ \E ms \in Steps :
          /\ \A timer \in Timers : timer # Null => timer[1] >= ms
          /\ charts' = [i \in DOMAIN charts |->
                           [charts[i] EXCEPT !.timer = Later(@, ms)]]
          /\ pies' = [i \in DOMAIN pies |-> [pies[i] EXCEPT !.timer = Later(@, ms)]]
          /\ sinceResize' = Min(sinceResize + ms, MaxIdle)
    /\ UNCHANGED <<controlListeners, lastUpdates, containerWidth, burstInits>>
    /\ UNCHANGED <<analysisVars, loaderVars, pageVars, themeVars>>

\* the resize timer of a PerformanceChart is due: its callback runs
ChartTimerFire ==
    /\ \E i \in DOMAIN charts :
          /\ charts[i].timer = Num(0)
          /\ charts[i].inits < MaxInits
          /\ charts' = [charts EXCEPT ![i] = resizeTimeout(@, containerWidth)]
          /\ burstInits' = burstInits + (charts'[i].inits - charts[i].inits)
    /\ UNCHANGED <<controlListeners, lastUpdates, containerWidth, sinceResize, pies>>
    /\ UNCHANGED <<analysisVars, loaderVars, pageVars, themeVars>>

\* the resize timer of a PieChart is due: its callback calls init
PieTimerFire ==
    /\ \E i \in DOMAIN pies :
          /\ pies[i].timer = Num(0)
          /\ pies[i].inits < MaxInits
          /\ pies' = [pies EXCEPT ![i] = PieChart_init([@ EXCEPT !.timer = Null])]
    /\ UNCHANGED <<charts, controlListeners, lastUpdates, containerWidth,
                   sinceResize, burstInits>>
    /\ UNCHANGED <<analysisVars, loaderVars, pageVars, themeVars>>

\* the page as Dashboard's constructor leaves it: no chart yet, the window
\* at rest
WidgetInit ==
    /\ NetIdle
    /\ CorrIdle
    /\ DataIdle
    /\ LoaderIdle
    /\ PageIdle
    /\ ThemeIdle
    /\ charts = <<>>
    /\ controlListeners = 0
    /\ lastUpdates = 0
    /\ containerWidth \in Widths
    /\ sinceResize = MaxIdle
    /\ burstInits = 0
    /\ pies = <<>>

\* the dashboard view and its chart
WidgetNext ==
    \/ RenderDashboard
    \/ ControlChange
    \/ ChartSetter
    \/ WindowResize
    \/ Elapse
    \/ ChartTimerFire

SpecWidget == WidgetInit /\ [][WidgetNext]_vars

\* the team detail view and its pie charts
DetailNext ==
    \/ RenderPieCharts
    \/ ThemeChange
    \/ WindowResize
    \/ Elapse
    \/ PieTimerFire

SpecDetail == WidgetInit /\ [][DetailNext]_vars


\* the charts that were constructed and not destroyed
Live == {i \in DOMAIN charts : ~charts[i].destroyed}

\* C23: whatever sequence of init, update, updateSort, updateFilter,
\* updateLocation, updateBookmaker and re-inits by the resize timer a
\* PerformanceChart went through, it has exactly one 'resize' and one
\* 'themechange' listener on the window; once destroyed it has none, and no
\* resize timer is left pending that could initialise it again.
C23_OneListenerOfEachKind ==
    \A i \in DOMAIN charts :
        IF charts[i].destroyed
        THEN /\ charts[i].resize = 0
             /\ charts[i].themechange = 0
             /\ charts[i].timer = Null
        ELSE /\ charts[i].resize = 1
             /\ charts[i].themechange = 1

\* a chart initialised again and again was destroyed while its resize timer
\* was pending, and its successor was initialised again too
C23_Witness ==
    \E i, j \in DOMAIN charts :
        /\ charts[i].destroyed
        /\ charts[i].cleared
        /\ charts[i].inits >= 2
        /\ ~charts[j].destroyed
        /\ charts[j].inits >= 2

\* C24: a PerformanceChart has at most one tooltip element attached to the
\* body, however often it is initialised again, and none once destroyed.
C24_OneTooltipPerChart ==
    \A i \in DOMAIN charts :
        /\ charts[i].tooltips <= 1
        /\ charts[i].destroyed => charts[i].tooltips = 0

\* the charts that a step initialises
Initialised == {i \in DOMAIN charts : charts'[i].inits > charts[i].inits}

\* C25: resize events initialise a chart only through the timer, 250 ms
\* after the last event of the burst, only if the container width differs
\* from lastContainerWidth by more than 10 px, and once per burst.
C25_ResizeDebounced ==
    [][(WindowResize \/ ChartTimerFire) /\ Initialised # {} =>
          /\ ChartTimerFire
          /\ sinceResize = ResizeDelay
          /\ \A i \in Initialised :
                Abs(containerWidth - charts[i].lastContainerWidth) > ResizeThreshold
          /\ burstInits' = 1]_vars

\* the timer of a burst has just initialised the chart at a new width
C25_Witness ==
    /\ burstInits = 1
    /\ sinceResize = ResizeDelay
    /\ \E i \in Live : charts[i].inits >= 2 /\ charts[i].timer = Null

\* the pie charts with a listener on the window
Listening == {i \in DOMAIN pies : pies[i].resize > 0 \/ pies[i].themechange > 0}

\* C26: after any number of navigations to team details at most two
\* PieChart instances have listeners on the window, and the pie charts of
\* earlier navigations do not react to resize events any more.
C26_TwoPieChartsListen ==
    /\ Cardinality(Listening) <= 2
    /\ \A i \in DOMAIN pies : 2 * pies[i].render < Len(pies) => pies[i].timer = Null

\* C27: however often the dashboard was rendered, one change of a chart
\* control calls PerformanceChart.update exactly once, and at most one
\* chart that was not destroyed exists.
C27_OneUpdatePerChange ==
    [][ControlChange => lastUpdates' = 1 /\ Cardinality(Live) <= 1]_vars


(***************************************************************************)
(* The windows and the location filter together; the recomputed counts;    *)
(* the styling of a net performance                                        *)
(***************************************************************************)
\* getFilteredTeams was called for the last 5 or 10 matches at one venue
WindowedAtLocation ==
    /\ call.op = "getFilteredTeams"
    /\ call.filterType \in {"last5", "last10"}
    /\ call.location \in {"home", "away"}

\* the final n entries of a history
Final(history, n) ==
    [i \in 1..Min(n, Len(history)) |-> history[Len(history) - Min(n, Len(history)) + i]]

\* C28: for 'last5' / 'last10' with location 'home' or 'away',
\* getFilteredTeams computes a team's statistics over those of the final 5
\* / 10 entries of its matchHistory whose homeAway is the location: the
\* time filter is applied first. matchesPlayed is at most 5 / 10 and may be
\* 0; the matches are not the team's last 5 / 10 at that location.
C28_TimeFilterBeforeLocation ==
    WindowedAtLocation =>
        \A t \in DOMAIN teams :
            LET n == IF call.filterType = "last5" THEN 5 ELSE 10
                final == Final(teams[t].matchHistory, n)
                atLocation == SelectSeq(final, LAMBDA m : m.homeAway = call.location)
                stats == returned[t].statistics
            IN /\ stats.matchesPlayed = Len(atLocation)
               /\ stats.matchesPlayed <= n
               /\ stats.wins = Cardinality(Where(atLocation, LAMBDA m : m.result = "W"))
               /\ stats.covers = Cardinality(Where(atLocation, StrictCover))
               /\ returned[t].totalNetPerformance = SumNetPerformance(atLocation)
               /\ returned[t].matchHistory = teams[t].matchHistory

\* a team with five or more matches at the venue, none of them among its
\* final five: the statistics are over no match
C28_Witness ==
    /\ WindowedAtLocation
    /\ call.filterType = "last5"
    /\ \E t \in DOMAIN teams :
          /\ Cardinality(Where(teams[t].matchHistory,
                               LAMBDA m : m.homeAway = call.location)) >= 5
          /\ returned[t].statistics.matchesPlayed = 0

\* a rate between 0 and 1
InUnitInterval(q) == q.den > 0 /\ 0 <= q.num /\ q.num <= q.den

\* C29: in every statistics record that getFilteredTeams or
\* getTeamsForLastNMatches recomputes, wins + losses + draws =
\* matchesPlayed, 0 <= covers <= matchesPlayed, winRate and coverRate lie
\* in [0, 1], and matchesPlayed is the size of the filtered subset.
C29_CountsPartitionMatches ==
    (Recomputed \/ call.op = "getTeamsForLastNMatches") =>
        \A t \in DOMAIN teams :
            LET kept == IF Recomputed THEN Kept(teams[t])
                        ELSE slice(teams[t].matchHistory, -call.n)
                stats == returned[t].statistics
            IN /\ stats.wins + stats.losses + stats.draws = stats.matchesPlayed
               /\ 0 <= stats.covers
               /\ stats.covers <= stats.matchesPlayed
               /\ InUnitInterval(stats.winRate)
               /\ InUnitInterval(stats.coverRate)
               /\ stats.matchesPlayed = Len(kept)

\* a recomputed record over a draw and a win, one of them a cover
C29_Witness ==
    /\ Recomputed
    /\ \E t \in DOMAIN teams :
          /\ returned[t].statistics.matchesPlayed = 2
          /\ returned[t].statistics.draws = 1
          /\ returned[t].statistics.wins = 1
          /\ returned[t].statistics.covers = 1

\* C30: a net performance is given the class 'net-perf-positive' only when
\* it is strictly greater than 0, so a row of the match history table is
\* styled positive exactly when it counts as a cover; a net performance of
\* 0 is not presented as outperformance.
C30_PositiveStyleIffCover ==
    call.op = "renderMatchHistoryTable" =>
        \A i \in DOMAIN returned :
            (returned[i].netPerfClass = "net-perf-positive") <=> returned[i].beatSpread

=============================================================================
